---- MODULE Spec2Model ----
(***************************************************************************)
(* Hostplane control plane: the jobs/sites store, the enqueue endpoints,   *)
(* the polling worker with startup recovery, and the provision / destroy   *)
(* transactions against the site's infrastructure.                         *)
(***************************************************************************)
EXTENDS Integers, FiniteSets, Sequences, TLC

\* ------------------------------------------------------------------ bounds
MaxJobs == 2
MaxJobIDs == 3
MaxClock == 2
StuckJobTimeout == 1

\* ------------------------------------------------------- program constants
DefaultMaxAttempts == 3

Sites == {"a", "b"}
Reqs == {1, 2}
Workers == {1}
Claimers == {1, 2}

NULL == -1
\* a hostname is the sequence of its labels; the empty string is no hostname
NoDomain == <<>>
NoJob == [ID |-> 0, Type |-> "-", Site |-> "-", Attempts |-> 0, MaxAttempts |-> 0]
\* code is the HTTP status of the thread's last domain request (0: none);
\* sidecar keeps the hostname that step 1 of a domain request replaced in
\* the sidecar's server block (history, the handler does not read it)
IdleReq ==
  [kind |-> "-", site |-> "-", name |-> <<>>, pc |-> "idle", jobID |-> 0,
   domain |-> NoDomain, old |-> NoDomain, isWP |-> FALSE, retry |-> FALSE,
   code |-> 0, from |-> "-", to |-> "-", result |-> "-", sidecar |-> NoDomain]

JobProvision == "PROVISION"
JobDestroy == "DESTROY"
JobStaticProvision == "STATIC_PROVISION"

StatusPending == "PENDING"
StatusProcessing == "PROCESSING"
StatusCompleted == "COMPLETED"
StatusFailed == "FAILED"

\* ---------------------------------------------------------------- lifecycle
SiteStatuses ==
  {"CREATED", "PROVISIONING", "ACTIVE", "DOMAIN_PENDING", "DOMAIN_VALIDATING",
   "DOMAIN_ROUTING", "DOMAIN_ACTIVE", "DOMAIN_REMOVING", "DESTROYING",
   "DESTROYED", "FAILED"}

allowedTransitions ==
  [s \in SiteStatuses |->
     CASE s = "CREATED" -> {"PROVISIONING"}
       [] s = "PROVISIONING" -> {"ACTIVE", "FAILED"}
       [] s = "ACTIVE" -> {"DOMAIN_PENDING", "DESTROYING"}
       [] s = "DOMAIN_PENDING" -> {"DOMAIN_VALIDATING", "ACTIVE"}
       [] s = "DOMAIN_VALIDATING" -> {"DOMAIN_ROUTING", "DOMAIN_PENDING", "ACTIVE"}
       [] s = "DOMAIN_ROUTING" -> {"DOMAIN_ACTIVE", "ACTIVE"}
       [] s = "DOMAIN_ACTIVE" -> {"DOMAIN_REMOVING", "DESTROYING"}
       [] s = "DOMAIN_REMOVING" -> {"ACTIVE", "FAILED"}
       [] s = "DESTROYING" -> {"DESTROYED", "FAILED"}
       [] s = "FAILED" -> {"PROVISIONING", "DESTROYING"}
       [] OTHER -> {}]

\* a check that also lets a status stay what it is
CanTransitionOrStay(from, to) ==
  from \in SiteStatuses /\ (to = from \/ to \in allowedTransitions[from])

CanTransitionTo(from, to) ==
  from \in SiteStatuses /\ to \in allowedTransitions[from]

\* -------------------------------------------------------------------- state
VARIABLES
  now,      \* the store's clock (NOW())
  jobs,     \* jobs table: id -> row
  sites,    \* sites table: site -> row
  nextJob,  \* number of job ids handed out so far (uuid.New is fresh)
  req,      \* in-flight API request of each handler thread
  wpc,      \* position of each worker in Start / processNext
  wjob,     \* the Job struct ClaimNextJob scanned for the worker
  wres,     \* result of the job's Run: error and failed compensation
  recovered, \* count returned by the last RecoverStuckJobs
  infra,     \* per site: application DB, DB users, volume, containers, snippet
  quit       \* main has received SIGTERM / SIGINT on its quit channel

vars == <<now, jobs, sites, nextJob, req, wpc, wjob, wres, recovered, infra, quit>>

\* comps: the compensation calls the run made, in order; msg: the error it
\* returned, outermost wrapper first
NoRes == [err |-> FALSE, compFailed |-> FALSE, comps |-> <<>>, msg |-> <<>>]

\* ------------------------------------------------------------- state store
InsertJob(J, id, jobType, site, t) ==
  (id :> [type |-> jobType, site |-> site, status |-> StatusPending,
          attempts |-> 0, max_attempts |-> DefaultMaxAttempts,
          error |-> "NULL", payload |-> "NULL", created_at |-> t,
          started_at |-> NULL]) @@ J

UpsertSite(S, site, status, jobID) ==
  IF site \in DOMAIN S
    THEN [S EXCEPT ![site].status = status, ![site].job_id = jobID]
    ELSE (site :> [status |-> status, job_id |-> jobID,
                   custom_domain |-> NoDomain]) @@ S

UpdateSiteStatus(S, site, status) ==
  IF site \in DOMAIN S THEN [S EXCEPT ![site].status = status] ELSE S

\* an active-job check that looks at PROCESSING rows only
HasProcessingJob(J, site) ==
  \E j \in DOMAIN J : J[j].site = site /\ J[j].status = StatusProcessing

\* an active-job check that looks at PENDING rows only
HasPendingJob(J, site) ==
  \E j \in DOMAIN J : J[j].site = site /\ J[j].status = StatusPending

HasActiveJob(J, site) ==
  \E j \in DOMAIN J :
    J[j].site = site /\ J[j].status \in {StatusPending, StatusProcessing}

\* rows held by the open claim transactions of the other callers
LockedByOthers(w) ==
  {wjob[v].ID : v \in {u \in Claimers : u # w /\ wpc[u] = "selected"}}

\* the SELECT without FOR UPDATE SKIP LOCKED: rows held by others are read too
ClaimCandidatesNoLock(J, locked) ==
  LET open == {j \in DOMAIN J :
                 /\ J[j].status = StatusPending
                 /\ J[j].attempts < J[j].max_attempts}
  IN {j \in open : \A k \in open : J[j].created_at <= J[k].created_at}

\* the SELECT without ORDER BY created_at
ClaimCandidatesUnordered(J, locked) ==
  {j \in DOMAIN J :
     /\ J[j].status = StatusPending
     /\ J[j].attempts < J[j].max_attempts
     /\ j \notin locked}

\* SELECT ... WHERE status='PENDING' AND attempts < max_attempts
\*        ORDER BY created_at ASC LIMIT 1 FOR UPDATE SKIP LOCKED
ClaimCandidates(J, locked) ==
  LET open == {j \in DOMAIN J :
                 /\ J[j].status = StatusPending
                 /\ J[j].attempts < J[j].max_attempts
                 /\ j \notin locked}
  IN {j \in open : \A k \in open : J[j].created_at <= J[k].created_at}

\* the Job struct as scanned by the SELECT (before the UPDATE)
ScanJob(J, id) ==
  [ID |-> id, Type |-> J[id].type, Site |-> J[id].site,
   Attempts |-> J[id].attempts, MaxAttempts |-> J[id].max_attempts]

ClaimUpdate(J, id, t) ==
  IF id \in DOMAIN J
    THEN [J EXCEPT ![id].status = StatusProcessing,
                   ![id].attempts = @ + 1,
                   ![id].started_at = t]
    ELSE J

CompleteJobRow(J, id) ==
  IF id \in DOMAIN J
    THEN [J EXCEPT ![id].status = StatusCompleted, ![id].error = "NULL"]
    ELSE J

FinalSiteStatus(jobType) ==
  IF jobType = JobDestroy THEN "DESTROYED" ELSE "ACTIVE"

FailJobRow(J, id) ==
  IF id \in DOMAIN J
    THEN [J EXCEPT ![id].status = StatusFailed, ![id].error = "job error"]
    ELSE J

FailSiteStatus == "PROVISIONING"

\* a RetryJob that also resets the attempts counter
RetryJobResetsAttempts(J, id) ==
  IF id \in DOMAIN J
    THEN [J EXCEPT ![id].status = StatusPending, ![id].error = "attempt failed",
                   ![id].attempts = 0]
    ELSE J

RetryJob(J, id) ==
  IF id \in DOMAIN J
    THEN [J EXCEPT ![id].status = StatusPending, ![id].error = "attempt failed"]
    ELSE J

\* the WHERE clause without the started_at condition
StuckJobsAnyAge(J, t, timeoutMinutes) ==
  {j \in DOMAIN J : J[j].status = StatusProcessing}

StuckJobs(J, t, timeoutMinutes) ==
  {j \in DOMAIN J :
     J[j].status = StatusProcessing /\ J[j].started_at < t - timeoutMinutes}

RecoverStuckJobs(J, t, timeoutMinutes) ==
  [j \in DOMAIN J |->
     IF j \in StuckJobs(J, t, timeoutMinutes)
       THEN [J[j] EXCEPT !.status = StatusPending, !.error = "recovered"]
       ELSE J[j]]

SetJobPayload(J, id, path) ==
  IF id \in DOMAIN J THEN [J EXCEPT ![id].payload = path] ELSE J

\* ---------------------------------------------------------- infrastructure
\* user holds the hosts h for which the account 'wp_<site>'@h exists;
\* a container is "missing", "created" (not started) or "running";
\* nginxDomain is the custom hostname in the sidecar's server block,
\* snippetDomain the one in the site's edge snippet file; edgeOn and
\* edgeDomain are what the edge router's running configuration routes.
\* the resources StaticProvisioner.Run names for a site: volume
\* static_vol_<site>, the files in it, the container tmp_upload_<volume>,
\* the container static_<site>, <site>.conf in the shared nginx's conf dir
\* and whether the running nginx has loaded it; zip is the uploaded archive
\* at the path of the job's payload
NoStatic ==
  [vol |-> FALSE, files |-> FALSE, tmp |-> FALSE, nginx |-> "missing",
   conf |-> FALSE, live |-> FALSE, zip |-> FALSE]

NoInfra ==
  [db |-> FALSE, user |-> {}, vol |-> FALSE, php |-> "missing",
   nginx |-> "missing", nginxDomain |-> NoDomain, snippet |-> FALSE,
   snippetDomain |-> NoDomain, edgeOn |-> FALSE, edgeDomain |-> NoDomain,
   siteurl |-> NoDomain, static |-> NoStatic]

ProvFailPoints ==
  {"none", "db.ping", "db.createDatabase", "db.createUser", "db.grant",
   "db.flush", "vol.create", "php.create", "php.start", "nginx.create",
   "nginx.start", "conf.copy", "conf.reload", "caddy.mkdir", "caddy.copy",
   "caddy.reload"}

CompFailPoints ==
  {"none", "rb.snippet", "rb.reload", "rb.nginx", "rb.php", "rb.vol", "rb.db"}

DestFailPoints ==
  {"none", "rm.php", "rm.vol", "rm.snippet", "rm.reload", "drop.ping",
   "drop.database", "drop.user"}

Ok(inf) == [inf |-> inf, err |-> FALSE]
Err(inf) == [inf |-> inf, err |-> TRUE]

createDatabase(inf, fp) ==
  IF fp \in {"db.ping", "db.createDatabase"} THEN Err(inf)
  ELSE IF fp = "db.createUser" THEN Err([inf EXCEPT !.db = TRUE])
  ELSE IF fp \in {"db.grant", "db.flush"}
    THEN Err([inf EXCEPT !.db = TRUE, !.user = @ \cup {"%"}])
  ELSE Ok([inf EXCEPT !.db = TRUE, !.user = @ \cup {"%"}])

createVolume(inf, fp) ==
  IF fp = "vol.create" THEN Err(inf) ELSE Ok([inf EXCEPT !.vol = TRUE])

\* createContainer without the ContainerInspect branch: ContainerCreate
\* refuses a name that is in use
createContainerNoInspect(inf, fp) ==
  IF inf.php # "missing" \/ fp = "php.create" THEN Err(inf)
  ELSE IF fp = "php.start" THEN Err([inf EXCEPT !.php = "created"])
  ELSE Ok([inf EXCEPT !.php = "running"])

createContainer(inf, fp) ==
  IF inf.php # "missing"
    THEN IF fp = "php.start" THEN Err(inf) ELSE Ok([inf EXCEPT !.php = "running"])
  ELSE IF fp = "php.create" THEN Err(inf)
  ELSE IF fp = "php.start" THEN Err([inf EXCEPT !.php = "created"])
  ELSE Ok([inf EXCEPT !.php = "running"])

createNginxContainer(inf, fp) ==
  IF inf.nginx # "missing"
    THEN IF fp = "nginx.start" THEN Err(inf) ELSE Ok([inf EXCEPT !.nginx = "running"])
  ELSE IF fp = "nginx.create" THEN Err(inf)
  ELSE IF fp = "nginx.start" THEN Err([inf EXCEPT !.nginx = "created"])
  ELSE Ok([inf EXCEPT !.nginx = "running"])

\* the server block Run writes names the default hostname only
writeNginxConfig(inf, fp) ==
  IF fp = "conf.copy" THEN Err(inf)
  ELSE IF fp = "conf.reload" THEN Err([inf EXCEPT !.nginxDomain = NoDomain])
  ELSE Ok([inf EXCEPT !.nginxDomain = NoDomain])

\* writeCaddyConfig(site, nginxName, defaultDomain, customDomain...)
writeCaddyConfig(inf, fp, customDomain) ==
  IF fp \in {"caddy.mkdir", "caddy.copy"} THEN Err(inf)
  ELSE Ok([inf EXCEPT !.snippet = TRUE, !.snippetDomain = customDomain])

\* what a reload of the edge router makes of a site's snippet file
EdgeReload(inf) ==
  [inf EXCEPT !.edgeOn = inf.snippet,
              !.edgeDomain = IF inf.snippet THEN inf.snippetDomain ELSE NoDomain]

reloadCaddy(inf, fp) ==
  IF fp \in {"caddy.reload", "rm.reload"} THEN Err(inf) ELSE Ok(EdgeReload(inf))

NoneTracked ==
  [dbCreated |-> FALSE, volCreated |-> FALSE, phpCreated |-> FALSE,
   nginxCreated |-> FALSE, caddyWritten |-> FALSE]

\* fmt.Errorf("provisioning failed (rolled back): %w", reason)
RolledBackTag == "provisioning failed (rolled back)"

\* a rollback closure that compensates nothing
rollbackNothing(inf, tr, cf, reason) ==
  [inf |-> inf, err |-> TRUE, reloaded |-> FALSE, compFailed |-> FALSE,
   comps |-> <<>>, msg |-> <<RolledBackTag, reason>>]

\* a rollback closure that stops at the first compensation call that fails
rollbackAborts(inf, tr, cf, reason) ==
  LET order == <<"rb.snippet", "rb.reload", "rb.nginx", "rb.php", "rb.vol", "rb.db">>
      flag == [c \in {"rb.snippet", "rb.reload"} |-> tr.caddyWritten]
                @@ ("rb.nginx" :> tr.nginxCreated) @@ ("rb.php" :> tr.phpCreated)
                @@ ("rb.vol" :> tr.volCreated) @@ ("rb.db" :> tr.dbCreated)
      aborted == \E k \in 1..6 : order[k] = cf /\ flag[cf]
      last == IF aborted THEN CHOOSE k \in 1..6 : order[k] = cf ELSE 6
      runs(c) == flag[c] /\ \E k \in 1..last : order[k] = c /\ c # cf
      i0 == IF runs("rb.snippet")
              THEN [inf EXCEPT !.snippet = FALSE, !.snippetDomain = NoDomain]
              ELSE inf
      i1 == IF runs("rb.reload") THEN EdgeReload(i0) ELSE i0
      i2 == IF runs("rb.nginx")
              THEN [i1 EXCEPT !.nginx = "missing", !.nginxDomain = NoDomain]
              ELSE i1
      i3 == IF runs("rb.php") THEN [i2 EXCEPT !.php = "missing"] ELSE i2
      i4 == IF runs("rb.vol") THEN [i3 EXCEPT !.vol = FALSE] ELSE i3
      i5 == IF runs("rb.db")
              THEN [i4 EXCEPT !.db = FALSE, !.user = @ \ {"%"},
                              !.siteurl = NoDomain]
              ELSE i4
  IN [inf |-> i5, err |-> TRUE, reloaded |-> runs("rb.reload"),
      compFailed |-> aborted,
      comps |-> SelectSeq(order, LAMBDA c : flag[c] /\ \E k \in 1..last : order[k] = c),
      msg |-> <<RolledBackTag, reason>>]

\* the rollback closure of Provisioner.Run: tr are the tracking flags, cf the
\* compensation call that fails (its error is ignored by the code)
rollback(inf, tr, cf, reason) ==
  LET i0 == IF tr.caddyWritten /\ cf # "rb.snippet"
              THEN [inf EXCEPT !.snippet = FALSE, !.snippetDomain = NoDomain]
              ELSE inf
      i1 == IF tr.caddyWritten /\ cf # "rb.reload" THEN EdgeReload(i0) ELSE i0
      i2 == IF tr.nginxCreated /\ cf # "rb.nginx"
              THEN [i1 EXCEPT !.nginx = "missing", !.nginxDomain = NoDomain]
              ELSE i1
      i3 == IF tr.phpCreated /\ cf # "rb.php"
              THEN [i2 EXCEPT !.php = "missing"] ELSE i2
      i4 == IF tr.volCreated /\ cf # "rb.vol"
              THEN [i3 EXCEPT !.vol = FALSE] ELSE i3
      i5 == IF tr.dbCreated /\ cf # "rb.db"
              THEN [i4 EXCEPT !.db = FALSE, !.user = @ \ {"%"},
                              !.siteurl = NoDomain]
              ELSE i4
  IN [inf |-> i5, err |-> TRUE,
      reloaded |-> tr.caddyWritten /\ cf # "rb.reload",
      compFailed |-> \/ tr.caddyWritten /\ cf \in {"rb.snippet", "rb.reload"}
                     \/ tr.nginxCreated /\ cf = "rb.nginx"
                     \/ tr.phpCreated /\ cf = "rb.php"
                     \/ tr.volCreated /\ cf = "rb.vol"
                     \/ tr.dbCreated /\ cf = "rb.db",
      comps |-> (IF tr.caddyWritten THEN <<"rb.snippet", "rb.reload">> ELSE <<>>)
                \o (IF tr.nginxCreated THEN <<"rb.nginx">> ELSE <<>>)
                \o (IF tr.phpCreated THEN <<"rb.php">> ELSE <<>>)
                \o (IF tr.volCreated THEN <<"rb.vol">> ELSE <<>>)
                \o (IF tr.dbCreated THEN <<"rb.db">> ELSE <<>>),
      msg |-> <<RolledBackTag, reason>>]

ProvisionerRun(inf, fp, cf) ==
  LET t1 == [NoneTracked EXCEPT !.dbCreated = TRUE]
      t2 == [t1 EXCEPT !.volCreated = TRUE]
      t3 == [t2 EXCEPT !.phpCreated = TRUE]
      t4 == [t3 EXCEPT !.nginxCreated = TRUE]
      t5 == [t4 EXCEPT !.caddyWritten = TRUE]
      r1 == createDatabase(inf, fp)
      r2 == createVolume(r1.inf, fp)
      r3 == createContainer(r2.inf, fp)
      r4 == createNginxContainer(r3.inf, fp)
      r5 == writeNginxConfig(r4.inf, fp)
      r6 == writeCaddyConfig(r5.inf, fp, NoDomain)
      r7 == reloadCaddy(r6.inf, fp)
  IN IF r1.err THEN rollback(r1.inf, NoneTracked, cf, "createDatabase")
     ELSE IF r2.err THEN rollback(r2.inf, t1, cf, "createVolume")
     ELSE IF r3.err THEN rollback(r3.inf, t2, cf, "createPhpContainer")
     ELSE IF r4.err THEN rollback(r4.inf, t3, cf, "createNginxContainer")
     ELSE IF r5.err THEN rollback(r5.inf, t4, cf, "writeNginxConfig")
     ELSE IF r6.err THEN rollback(r6.inf, t4, cf, "writeCaddyConfig")
     ELSE IF r7.err THEN rollback(r7.inf, t5, cf, "reloadCaddy")
     ELSE [inf |-> r7.inf, err |-> FALSE, reloaded |-> TRUE,
           compFailed |-> FALSE, comps |-> <<>>, msg |-> <<>>]

removeContainer(inf, fp) ==
  IF fp = "rm.php" THEN Err(inf) ELSE Ok([inf EXCEPT !.php = "missing"])

removeVolume(inf, fp) ==
  IF fp = "rm.vol" THEN Err(inf) ELSE Ok([inf EXCEPT !.vol = FALSE])

removeCaddyConfig(inf, fp) ==
  IF fp = "rm.snippet" THEN Err(inf)
  ELSE Ok([inf EXCEPT !.snippet = FALSE, !.snippetDomain = NoDomain])

\* DROP DATABASE IF EXISTS wp_<site>; DROP USER IF EXISTS 'wp_<site>'@'<AppServerIP>'
dropDatabase(inf, fp) ==
  IF fp \in {"drop.ping", "drop.database"} THEN Err(inf)
  ELSE IF fp = "drop.user"
    THEN Err([inf EXCEPT !.db = FALSE, !.siteurl = NoDomain])
  ELSE Ok([inf EXCEPT !.db = FALSE, !.user = @ \ {"AppServerIP"},
                      !.siteurl = NoDomain])

DestroyerRun(inf, fp) ==
  LET r1 == removeContainer(inf, fp)
      r2 == removeVolume(r1.inf, fp)
      r3 == removeCaddyConfig(r2.inf, fp)
      r4 == reloadCaddy(r3.inf, fp)
      r5 == dropDatabase(r4.inf, fp)
      r == IF r1.err THEN r1 ELSE IF r2.err THEN r2 ELSE IF r3.err THEN r3
           ELSE IF r4.err THEN r4 ELSE r5
  IN [inf |-> r.inf, err |-> r.err,
      reloaded |-> ~r1.err /\ ~r2.err /\ ~r3.err /\ ~r4.err,
      compFailed |-> FALSE, comps |-> <<>>,
      msg |-> IF r1.err THEN <<"removeContainer">>
              ELSE IF r2.err THEN <<"removeVolume">>
              ELSE IF r3.err THEN <<"removeCaddyConfig">>
              ELSE IF r4.err THEN <<"reloadCaddy">>
              ELSE IF r5.err THEN <<"dropDatabase">> ELSE <<>>]

StaticFailPoints ==
  {"none", "s.vol", "s.tmpCreate", "s.zip", "s.copy", "s.create", "s.start",
   "s.conf", "s.reload"}

\* the deferred ContainerRemove of the upload container fails or not
UploadRemoveFails == {"none", "s.tmpRemove"}

\* uploadZipToVolume: ContainerCreate tmp_upload_<volume>, defer its
\* removal (result dropped), zipToTar, CopyToContainer
uploadZipToVolume(st, fp, rf) ==
  IF st.tmp \/ fp = "s.tmpCreate" THEN Err(st)
  ELSE LET left == rf = "s.tmpRemove"
       IN IF ~st.zip \/ fp = "s.zip" THEN Err([st EXCEPT !.tmp = left])
          ELSE IF fp = "s.copy" THEN Err([st EXCEPT !.tmp = left])
          ELSE Ok([st EXCEPT !.tmp = left, !.files = TRUE])

\* StaticProvisioner.createContainer: inspect, then start or create and start
staticCreateContainer(st, fp) ==
  IF st.nginx # "missing"
    THEN IF fp = "s.start" THEN Err(st) ELSE Ok([st EXCEPT !.nginx = "running"])
  ELSE IF fp = "s.create" THEN Err(st)
  ELSE IF fp = "s.start" THEN Err([st EXCEPT !.nginx = "created"])
  ELSE Ok([st EXCEPT !.nginx = "running"])

\* StaticProvisioner.Run(site, zipPath): st is the site's static resources;
\* the result keeps them in field inf
StaticProvisionerRun(st, fp, rf) ==
  LET r1 == IF fp = "s.vol" THEN Err(st) ELSE Ok([st EXCEPT !.vol = TRUE])
      r2 == uploadZipToVolume(r1.inf, fp, rf)
      r3 == staticCreateContainer(r2.inf, fp)
      r4 == IF fp = "s.conf" THEN Err(r3.inf) ELSE Ok([r3.inf EXCEPT !.conf = TRUE])
      r5 == IF fp = "s.reload" THEN Err(r4.inf) ELSE Ok([r4.inf EXCEPT !.live = TRUE])
  IN IF r1.err THEN [inf |-> r1.inf, err |-> TRUE, msg |-> <<"createVolume">>]
     ELSE IF r2.err THEN [inf |-> r2.inf, err |-> TRUE, msg |-> <<"uploadZip">>]
     ELSE IF r3.err THEN [inf |-> r3.inf, err |-> TRUE, msg |-> <<"createContainer">>]
     ELSE IF r4.err THEN [inf |-> r4.inf, err |-> TRUE, msg |-> <<"writeNginxConfig">>]
     ELSE IF r5.err THEN [inf |-> r5.inf, err |-> TRUE, msg |-> <<"reloadNginx">>]
     ELSE [inf |-> [r5.inf EXCEPT !.zip = FALSE], err |-> FALSE, msg |-> <<>>]

\* the switch on job.Type in processNext
Dispatch(jobType, inf, fp, cf) ==
  IF jobType = JobProvision THEN ProvisionerRun(inf, fp, cf)
  ELSE IF jobType = JobDestroy THEN DestroyerRun(inf, fp)
  ELSE [inf |-> inf, err |-> TRUE, reloaded |-> FALSE, compFailed |-> FALSE,
        comps |-> <<>>, msg |-> <<"unknown job type">>]

\* -------------------------------------------------------------------- Init
Init ==
  /\ now = 0
  /\ jobs = <<>>
  /\ sites = <<>>
  /\ nextJob = 0
  /\ req = [r \in Reqs |-> IdleReq]
  /\ wpc = [w \in Claimers |-> "idle"]
  /\ wjob = [w \in Claimers |-> NoJob]
  /\ wres = [w \in Claimers |-> NoRes]
  /\ recovered = 0
  /\ infra = [s \in Sites |-> NoInfra]
  /\ quit = FALSE

\* the process that serves the API and runs the worker is alive
ProcessUp == wpc[1] # "down"

\* the HTTP server accepts new requests: srv.Shutdown has not closed the
\* listener
Listening == ProcessUp /\ ~quit

InFlight == Cardinality({r \in Reqs : req[r].pc # "idle"})

\* the jobs table and the job ids stay within the bounds
RoomForJob ==
  /\ Cardinality(DOMAIN jobs) + InFlight < MaxJobs
  /\ nextJob + InFlight < MaxJobIDs

\* ------------------------------------------------------------ API handlers
\* c.JSON(code, ...); return
Respond(r, code) == [IdleReq EXCEPT !.code = code]

\* the characters of submitted site names; names are sequences of them
LowerChars == {"a", "b"}
NameChars == LowerChars \cup {"A", "B", "-"}

\* strings.ToLower
ToLower(name) ==
  [i \in DOMAIN name |->
     IF name[i] = "A" THEN "a" ELSE IF name[i] = "B" THEN "b" ELSE name[i]]

\* validSite = ^[a-z0-9]+$
validSite(name) ==
  name # <<>> /\ \A i \in DOMAIN name : name[i] \in LowerChars

\* the key of the sites table; the valid names submitted are one character long
SiteKey(name) == name[1]

\* handleProvision / handleStaticProvision up to the HasActiveJob check; the
\* name is lower-cased before it is matched against validSite
handleProvision(r, name, kind) ==
  /\ Listening
  /\ req[r].pc = "idle"
  /\ LET site == ToLower(name)
     IN IF ~validSite(site)
          THEN req' = [req EXCEPT ![r] = Respond(r, 400)]
          ELSE IF HasActiveJob(jobs, SiteKey(site))
            THEN req' = [req EXCEPT ![r] = Respond(r, 409)]
          ELSE /\ RoomForJob
               /\ req' = [req EXCEPT ![r] =
                            [IdleReq EXCEPT !.kind = kind, !.name = name,
                                            !.site = SiteKey(site),
                                            !.pc = "getSite"]]
  /\ UNCHANGED <<now, jobs, sites, nextJob, wpc, wjob, wres, recovered, infra, quit>>

\* GetSite in handleProvision: 409 when the site is already ACTIVE
provisionGetSite(r) ==
  /\ req[r].pc = "getSite"
  /\ LET active == /\ req[r].site \in DOMAIN sites
                   /\ sites[req[r].site].status = "ACTIVE"
     IN /\ req' = [req EXCEPT ![r] =
             IF active THEN Respond(r, 409) ELSE [@ EXCEPT !.pc = "insertJob"]]
        \* handleStaticProvision: c.SaveUploadedFile(file, "/tmp/<site>.zip")
        /\ infra' = IF ~active /\ req[r].kind = JobStaticProvision
                      THEN [infra EXCEPT ![req[r].site].static.zip = TRUE]
                      ELSE infra
  /\ UNCHANGED <<now, jobs, sites, nextJob, wpc, wjob, wres, recovered, quit>>

\* handleDestroy up to the GetSite check: 404 for a missing site, 409 for one
\* that is DESTROYING or DESTROYED
handleDestroy(r, name) ==
  /\ Listening
  /\ req[r].pc = "idle"
  /\ LET lower == ToLower(name)
         site == SiteKey(lower)
     IN IF ~validSite(lower)
          THEN req' = [req EXCEPT ![r] = Respond(r, 400)]
          ELSE IF site \notin DOMAIN sites
            THEN req' = [req EXCEPT ![r] = Respond(r, 404)]
          ELSE IF sites[site].status \in {"DESTROYING", "DESTROYED"}
            THEN req' = [req EXCEPT ![r] = Respond(r, 409)]
          ELSE /\ RoomForJob
               /\ req' = [req EXCEPT ![r] =
                            [IdleReq EXCEPT !.kind = JobDestroy, !.name = name,
                                            !.site = site,
                                            !.pc = "hasActive"]]
  /\ UNCHANGED <<now, jobs, sites, nextJob, wpc, wjob, wres, recovered, infra, quit>>

\* HasActiveJob in handleDestroy
destroyHasActive(r) ==
  /\ req[r].pc = "hasActive"
  /\ req' = [req EXCEPT ![r] =
       IF HasActiveJob(jobs, req[r].site)
         THEN Respond(r, 409) ELSE [@ EXCEPT !.pc = "insertJob"]]
  /\ UNCHANGED <<now, jobs, sites, nextJob, wpc, wjob, wres, recovered, infra, quit>>

\* jobID := uuid.New(); InsertJob(jobID, type, site)
handlerInsertJob(r) ==
  /\ req[r].pc = "insertJob"
  /\ nextJob' = nextJob + 1
  /\ jobs' = InsertJob(jobs, nextJob + 1, req[r].kind, req[r].site, now)
  /\ req' = [req EXCEPT ![r].pc = "upsertSite", ![r].jobID = nextJob + 1]
  /\ UNCHANGED <<now, sites, wpc, wjob, wres, recovered, infra, quit>>

EnqueueStatus(kind) ==
  IF kind = JobDestroy THEN "DESTROYING" ELSE "PROVISIONING"

\* UpsertSite(site, domain, status, jobID), then 202 (static: SetJobPayload next)
handlerUpsertSite(r) ==
  /\ req[r].pc = "upsertSite"
  /\ sites' = UpsertSite(sites, req[r].site, EnqueueStatus(req[r].kind), req[r].jobID)
  /\ req' = [req EXCEPT ![r] =
       IF req[r].kind = JobStaticProvision
         THEN [@ EXCEPT !.pc = "setPayload"] ELSE Respond(r, 202)]
  /\ UNCHANGED <<now, jobs, nextJob, wpc, wjob, wres, recovered, infra, quit>>

handlerSetPayload(r) ==
  /\ req[r].pc = "setPayload"
  /\ jobs' = SetJobPayload(jobs, req[r].jobID, "zip")
  /\ req' = [req EXCEPT ![r] = Respond(r, 202)]
  /\ UNCHANGED <<now, sites, nextJob, wpc, wjob, wres, recovered, infra, quit>>

\* a store call of the handler returns an error: the handler answers 500
handlerError(r) ==
  /\ req[r].pc \in {"getSite", "hasActive", "insertJob", "upsertSite",
                    "setPayload", "delJobs", "delSite", "delJob"}
  /\ req' = [req EXCEPT ![r] = Respond(r, 500)]
  /\ UNCHANGED <<now, jobs, sites, nextJob, wpc, wjob, wres, recovered, infra, quit>>

\* ------------------------------------------------------------------ worker
\* ClaimNextJob: BEGIN; SELECT ... FOR UPDATE SKIP LOCKED
ClaimSelect(w) ==
  /\ wpc[w] = "idle"
  /\ \E j \in ClaimCandidates(jobs, LockedByOthers(w)) :
       wjob' = [wjob EXCEPT ![w] = ScanJob(jobs, j)]
  /\ wpc' = [wpc EXCEPT ![w] = "selected"]
  /\ UNCHANGED <<now, jobs, sites, nextJob, req, wres, recovered, infra, quit>>

\* ClaimNextJob: UPDATE ... WHERE id=?; COMMIT
ClaimCommit(w) ==
  /\ wpc[w] = "selected"
  /\ jobs' = ClaimUpdate(jobs, wjob[w].ID, now)
  /\ wpc' = [wpc EXCEPT ![w] = "claimed"]
  /\ UNCHANGED <<now, sites, nextJob, req, wjob, wres, recovered, infra, quit>>

\* ClaimNextJob: the UPDATE or the COMMIT fails; the deferred Rollback runs
ClaimRollback(w) ==
  /\ wpc[w] = "selected"
  /\ wpc' = [wpc EXCEPT ![w] = "idle"]
  /\ wjob' = [wjob EXCEPT ![w] = NoJob]
  /\ UNCHANGED <<now, jobs, sites, nextJob, req, wres, recovered, infra, quit>>

\* processNext: run the job's transaction
Execute(w, FP, CF) ==
  /\ wpc[w] = "claimed"
  /\ \E fp \in FP, cf \in CF :
       LET r == Dispatch(wjob[w].Type, infra[wjob[w].Site], fp, cf)
       IN /\ infra' = [s \in Sites |->
                         IF s = wjob[w].Site THEN r.inf
                         ELSE IF r.reloaded THEN EdgeReload(infra[s])
                         ELSE infra[s]]
          /\ wres' = [wres EXCEPT ![w] = [err |-> r.err, compFailed |-> r.compFailed,
                                       comps |-> r.comps, msg |-> r.msg]]
  /\ wpc' = [wpc EXCEPT ![w] = "executed"]
  /\ UNCHANGED <<now, jobs, sites, nextJob, req, wjob, recovered, quit>>

\* processNext: job.Attempts >= job.MaxAttempts on the scanned Job struct
AttemptsExhausted(job) == job.Attempts >= job.MaxAttempts

\* processNext after Run: the jobs-row statement of CompleteJob / FailJob,
\* or RetryJob
FinishJobRow(w) ==
  /\ wpc[w] = "executed"
  /\ IF wres[w].err
       THEN IF AttemptsExhausted(wjob[w])
              THEN /\ jobs' = FailJobRow(jobs, wjob[w].ID)
                   /\ wpc' = [wpc EXCEPT ![w] = "siteUpdate"]
                   /\ UNCHANGED <<wjob, wres>>
              ELSE /\ jobs' = RetryJob(jobs, wjob[w].ID)
                   /\ wpc' = [wpc EXCEPT ![w] = "idle"]
                   /\ wjob' = [wjob EXCEPT ![w] = NoJob]
                   /\ wres' = [wres EXCEPT ![w] = NoRes]
       ELSE /\ jobs' = CompleteJobRow(jobs, wjob[w].ID)
            /\ wpc' = [wpc EXCEPT ![w] = "siteUpdate"]
            /\ UNCHANGED <<wjob, wres>>
  /\ UNCHANGED <<now, sites, nextJob, req, recovered, infra, quit>>

\* the UpdateSiteStatus that ends CompleteJob / FailJob
FinishSiteRow(w) ==
  /\ wpc[w] = "siteUpdate"
  /\ sites' = UpdateSiteStatus(sites, wjob[w].Site,
                IF wres[w].err THEN FailSiteStatus ELSE FinalSiteStatus(wjob[w].Type))
  /\ wpc' = [wpc EXCEPT ![w] = "idle"]
  /\ wjob' = [wjob EXCEPT ![w] = NoJob]
  /\ wres' = [wres EXCEPT ![w] = NoRes]
  /\ UNCHANGED <<now, jobs, nextJob, req, recovered, infra, quit>>

\* a store statement of CompleteJob / FailJob / RetryJob returns an error:
\* processNext logs it and returns
StoreError(w) ==
  /\ wpc[w] \in {"executed", "siteUpdate"}
  /\ wpc' = [wpc EXCEPT ![w] = "idle"]
  /\ wjob' = [wjob EXCEPT ![w] = NoJob]
  /\ wres' = [wres EXCEPT ![w] = NoRes]
  /\ UNCHANGED <<now, jobs, sites, nextJob, req, recovered, infra, quit>>

\* the process is killed: handlers and worker stop where they are, an open
\* claim transaction is rolled back by the store
Crash ==
  /\ ProcessUp
  /\ wpc' = [wpc EXCEPT ![1] = "down"]
  /\ wjob' = [wjob EXCEPT ![1] = NoJob]
  /\ wres' = [wres EXCEPT ![1] = NoRes]
  /\ req' = [r \in Reqs |-> IdleReq]
  /\ UNCHANGED <<now, jobs, sites, nextJob, recovered, infra, quit>>

\* Worker.Start: RecoverStuckJobs(cfg.StuckJobTimeout), then the ticker loop
Start ==
  /\ wpc[1] = "down"
  /\ jobs' = RecoverStuckJobs(jobs, now, StuckJobTimeout)
  /\ recovered' = Cardinality(StuckJobs(jobs, now, StuckJobTimeout))
  /\ wpc' = [wpc EXCEPT ![1] = "idle"]
  /\ quit' = FALSE
  /\ UNCHANGED <<now, sites, nextJob, req, wjob, wres, infra>>

\* time passes
Tick ==
  /\ now < MaxClock
  /\ now' = now + 1
  /\ UNCHANGED <<jobs, sites, nextJob, req, wpc, wjob, wres, recovered, infra, quit>>

processNext(w, FP, CF) ==
  \/ ClaimSelect(w)
  \/ ClaimCommit(w)
  \/ ClaimRollback(w)
  \/ Execute(w, FP, CF)
  \/ FinishJobRow(w)
  \/ FinishSiteRow(w)
  \/ StoreError(w)

\* the enqueue endpoints, served by the handler threads R for the submitted
\* names N; K are the kinds of provision request that arrive
ApiNames(R, N, K) ==
  \/ \E r \in R, n \in N, k \in K : handleProvision(r, n, k)
  \/ \E r \in R, n \in N : handleDestroy(r, n)
  \/ \E r \in R :
       \/ provisionGetSite(r)
       \/ destroyHasActive(r)
       \/ handlerInsertJob(r)
       \/ handlerUpsertSite(r)
       \/ handlerError(r)

\* the enqueue endpoints with the sites S submitted under their own names
Api(R, S, K) == ApiNames(R, {<<s>> : s \in S}, K)

\* adapter failures that the queue-level specifications draw from: a failed
\* edge reload (rolled back) and a failed container removal
QueueFails == {"none", "caddy.reload", "rm.php"}

\* The control plane as deployed: one handler thread at a time, one worker,
\* crashes and restarts.
Next ==
  \/ Api({1}, Sites, {JobProvision})
  \/ processNext(1, QueueFails, {"none"})
  \/ Crash
  \/ Start
  \/ Tick

Spec == Init /\ [][Next]_vars

\* One site, every adapter call and every compensation call may fail.
NextInfra ==
  \/ Api({1}, {"a"}, {JobProvision, JobStaticProvision})
  \/ handlerSetPayload(1)
  \/ processNext(1, ProvFailPoints \cup DestFailPoints, CompFailPoints)

SpecInfra == Init /\ [][NextInfra]_vars

\* Two handler threads racing on one site.
NextRace ==
  \/ Api(Reqs, {"a"}, {JobProvision, JobStaticProvision})
  \/ \E r \in Reqs : handlerSetPayload(r)
  \/ processNext(1, QueueFails, {"none"})

SpecRace == Init /\ [][NextRace]_vars

\* Two concurrent callers of ClaimNextJob.
NextClaim ==
  \/ Api({1}, Sites, {JobProvision})
  \/ \E w \in Claimers : processNext(w, QueueFails, {"none"})

SpecClaim == Init /\ [][NextClaim]_vars

\* main: <-quit returns, a SIGTERM or SIGINT has arrived; main goes on to
\* srv.Shutdown, which closes the listener
Signal ==
  /\ Listening
  /\ quit' = TRUE
  /\ UNCHANGED <<now, jobs, sites, nextJob, req, wpc, wjob, wres, recovered, infra>>

\* main: srv.Shutdown(shutdownCtx) returns, because the in-flight requests
\* were answered or because the 15 s deadline passed, and main returns: the
\* process exits and its goroutines, the worker among them, stop where they are
Exit ==
  /\ ProcessUp
  /\ quit
  /\ \E deadline \in BOOLEAN : deadline \/ \A r \in Reqs : req[r].pc = "idle"
  /\ wpc' = [wpc EXCEPT ![1] = "down"]
  /\ wjob' = [wjob EXCEPT ![1] = NoJob]
  /\ wres' = [wres EXCEPT ![1] = NoRes]
  /\ req' = [r \in Reqs |-> IdleReq]
  /\ UNCHANGED <<now, jobs, sites, nextJob, recovered, infra, quit>>

\* One site, one worker; the process is shut down by signal and started again.
NextShutdown ==
  \/ Api({1}, {"a"}, {JobProvision})
  \/ processNext(1, QueueFails, {"none"})
  \/ Signal
  \/ Exit
  \/ Start
  \/ Tick

SpecShutdown == Init /\ [][NextShutdown]_vars

\* The worker keeps ticking and every call it makes returns without a store
\* error: each step of processNext that is enabled is eventually taken.
workerStep ==
  \/ ClaimSelect(1)
  \/ ClaimCommit(1)
  \/ Execute(1, QueueFails, {"none"})
  \/ FinishJobRow(1)
  \/ FinishSiteRow(1)

NextTicking ==
  \/ Api({1}, {"a"}, {JobProvision})
  \/ workerStep

SpecTicking == Init /\ [][NextTicking]_vars /\ WF_vars(workerStep)

\* ---------------------------------------------------------- domain manager
BaseDomain == <<"base", "tld">>
PublicIP == "203.0.113.7"

\* labels the label part and the final part of domainRegexp accept
HostLabels == {"shop", "blog", "away", "x", "base", "com", "org", "net", "tld"}
TldLabels == {"com", "org", "net", "tld"}

\* the hostnames requests carry; "" is refused by the request binding
DomainInputs ==
  {<<"shop", "com">>, <<"blog", "org">>, <<"away", "net">>, <<"base", "tld">>,
   <<"x", "base", "tld">>, <<"*", "shop", "com">>, <<"bad_", "com">>, <<"com">>}

\* the A records the resolver returns
LookupHost(d) ==
  IF d \in {<<"shop", "com">>, <<"blog", "org">>} THEN {PublicIP}
  ELSE IF d = <<"away", "net">> THEN {"198.51.100.9"}
  ELSE {}

ValidateDomainFormat(d) ==
  /\ d # NoDomain
  /\ d[1] # "*"
  /\ Len(d) >= 2
  /\ \A i \in 1..(Len(d) - 1) : d[i] \in HostLabels
  /\ d[Len(d)] \in TldLabels

\* strings.HasSuffix(domain, "." + baseDomain) || domain == baseDomain
ValidateDomainNotBase(d, base) ==
  ~(/\ Len(d) >= Len(base)
    /\ SubSeq(d, Len(d) - Len(base) + 1, Len(d)) = base)

ValidateCustomDomain(d, base) ==
  ValidateDomainFormat(d) /\ ValidateDomainNotBase(d, base)

ResolvesAnywhere(d, expectedIP) == LookupHost(d) # {}

ValidateDomainPointsToIngress(d, expectedIP) == expectedIP \in LookupHost(d)

\* store: no other site holds the domain
EnsureDomainAvailable(S, d, site) ==
  \A t \in DOMAIN S \ {site} : S[t].custom_domain # d

\* a store that lets two rows hold the same custom_domain
SetCustomDomainNoIndex(S, site, d) == FALSE

\* store: the UPDATE of sites.custom_domain; the unique index refuses a value
\* another row holds
SetCustomDomainRefused(S, site, d) ==
  \E t \in DOMAIN S \ {site} : S[t].custom_domain = d

SetCustomDomain(S, site, d) ==
  IF site \in DOMAIN S THEN [S EXCEPT ![site].custom_domain = d] ELSE S

RemoveCustomDomain(S, site) ==
  IF site \in DOMAIN S THEN [S EXCEPT ![site].custom_domain = NoDomain] ELSE S

isWordPressSite(S, J, site) ==
  \/ S[site].job_id \notin DOMAIN J
  \/ J[S[site].job_id].type = JobProvision

\* the 500 response of a failed commit: "domain applied but failed to persist
\* -- retry the request"; the client keeps the site and hostname it asked for
RespondNotPersisted(r) ==
  [Respond(r, 500) EXCEPT !.kind = "applied but not persisted",
                          !.site = req[r].site, !.domain = req[r].domain]

\* the client of thread r re-submits the request that was answered "retry"
Resubmitted(r, site, d) ==
  /\ req[r].kind = "applied but not persisted"
  /\ req[r].site = site /\ req[r].domain = d

\* handleSetCustomDomain: the format, base-domain, DNS and availability gates
handleSetCustomDomain(r, site, d) ==
  /\ Listening
  /\ req[r].pc = "idle"
  /\ req' = [req EXCEPT ![r] =
       IF ~ValidateCustomDomain(d, BaseDomain) THEN Respond(r, 400)
       ELSE IF ~ValidateDomainPointsToIngress(d, PublicIP) THEN Respond(r, 400)
       ELSE IF ~EnsureDomainAvailable(sites, d, site) THEN Respond(r, 409)
       ELSE [IdleReq EXCEPT !.kind = "SET_DOMAIN", !.site = site,
                            !.domain = d, !.pc = "domGetSite",
                            !.retry = Resubmitted(r, site, d)]]
  /\ UNCHANGED <<now, jobs, sites, nextJob, wpc, wjob, wres, recovered, infra, quit>>

\* a handler that never takes the "already set" exit
NeverAlreadySet(S, site, d) == FALSE

\* handleSetCustomDomain: existing.CustomDomain == domain
DomainAlreadySet(S, site, d) == S[site].custom_domain = d

\* the 200 response of the no-op exit; its body says "domain already set"
RespondAlreadySet(r) == [Respond(r, 200) EXCEPT !.kind = "domain already set"]

\* handleSetCustomDomain: GetSite, the status gate and the idempotent no-op
setDomainGetSite(r) ==
  /\ req[r].pc = "domGetSite"
  /\ LET site == req[r].site
     IN req' = [req EXCEPT ![r] =
          IF site \notin DOMAIN sites THEN Respond(r, 404)
          ELSE IF sites[site].status \notin {"ACTIVE", "DOMAIN_ACTIVE"}
            THEN Respond(r, 409)
          ELSE IF DomainAlreadySet(sites, site, req[r].domain)
            THEN RespondAlreadySet(r)
          ELSE [@ EXCEPT !.pc = "domNginx",
                         !.old = sites[site].custom_domain,
                         !.isWP = isWordPressSite(sites, jobs, site)]]
  /\ UNCHANGED <<now, jobs, sites, nextJob, wpc, wjob, wres, recovered, infra, quit>>

\* handleRemoveCustomDomain: GetSite; 404, or 400 when no custom domain is set
handleRemoveCustomDomain(r, site) ==
  /\ Listening
  /\ req[r].pc = "idle"
  /\ req' = [req EXCEPT ![r] =
       IF site \notin DOMAIN sites THEN Respond(r, 404)
       ELSE IF sites[site].custom_domain = NoDomain THEN Respond(r, 400)
       ELSE [IdleReq EXCEPT !.kind = "REMOVE_DOMAIN", !.site = site,
                            !.domain = NoDomain, !.pc = "domNginx",
                            !.old = sites[site].custom_domain,
                            !.isWP = isWordPressSite(sites, jobs, site)]]
  /\ UNCHANGED <<now, jobs, sites, nextJob, wpc, wjob, wres, recovered, infra, quit>>

\* step 1 of both handlers (WordPress sites only): rewrite the sidecar's
\* server block for the default hostname and the requested custom one
domainNginx(r) ==
  /\ req[r].pc = "domNginx"
  /\ \/ /\ infra' = IF req[r].isWP
                      THEN [infra EXCEPT ![req[r].site].nginxDomain = req[r].domain]
                      ELSE infra
        /\ req' = [req EXCEPT ![r].pc = "domCaddy",
                              ![r].sidecar = infra[req[r].site].nginxDomain]
     \/ /\ req[r].isWP
        /\ req' = [req EXCEPT ![r] = Respond(r, 500)]
        /\ UNCHANGED infra
  /\ UNCHANGED <<now, jobs, sites, nextJob, wpc, wjob, wres, recovered, quit>>

\* what regenerateCaddy does to the site's infrastructure when it succeeds:
\* it writes the snippet file and returns
regenerateCaddy(inf, customDomain) ==
  writeCaddyConfig(inf, "none", customDomain).inf

\* step 2 of both handlers: regenerateCaddy; when it fails the sidecar is
\* written back with the previous custom hostname (errors ignored)
domainCaddy(r) ==
  /\ req[r].pc = "domCaddy"
  /\ LET site == req[r].site
     IN \/ /\ site \in DOMAIN sites
           /\ sites[site].job_id \in DOMAIN jobs
           /\ infra' = [infra EXCEPT ![site] = regenerateCaddy(@, req[r].domain)]
           /\ req' = [req EXCEPT ![r].pc = "domURLs"]
        \/ /\ \E back \in {req[r].old, infra[site].nginxDomain} :
                infra' = IF req[r].isWP
                           THEN [infra EXCEPT ![site].nginxDomain = back]
                           ELSE infra
           /\ req' = [req EXCEPT ![r] = Respond(r, 500)]
  /\ UNCHANGED <<now, jobs, sites, nextJob, wpc, wjob, wres, recovered, quit>>

\* step 3 of both handlers, WordPress sites only: updateWordPressURLs sets
\* siteurl and home to the hostname; its error is logged and the handler
\* goes on
domainURLs(r) ==
  /\ req[r].pc = "domURLs"
  /\ \/ /\ req[r].isWP
        /\ infra' = [infra EXCEPT ![req[r].site].siteurl = req[r].domain]
     \/ UNCHANGED infra
  /\ req' = [req EXCEPT ![r].pc = "domCommit"]
  /\ UNCHANGED <<now, jobs, sites, nextJob, wpc, wjob, wres, recovered, quit>>

\* step 4 of both handlers: commit custom_domain in the store, or 500
domainCommit(r) ==
  /\ req[r].pc = "domCommit"
  /\ \/ /\ req[r].kind = "SET_DOMAIN"
        /\ ~SetCustomDomainRefused(sites, req[r].site, req[r].domain)
        /\ sites' = SetCustomDomain(sites, req[r].site, req[r].domain)
        /\ req' = [req EXCEPT ![r] = Respond(r, 200)]
     \/ /\ req[r].kind = "REMOVE_DOMAIN"
        /\ sites' = RemoveCustomDomain(sites, req[r].site)
        /\ req' = [req EXCEPT ![r] = Respond(r, 200)]
     \/ /\ req' = [req EXCEPT ![r] = RespondNotPersisted(r)]
        /\ UNCHANGED sites
  /\ UNCHANGED <<now, jobs, nextJob, wpc, wjob, wres, recovered, infra, quit>>

\* the domain endpoints, served by the handler threads R for the sites S and
\* the hostnames D
DomainApi(R, S, D) ==
  \/ \E r \in R, s \in S, d \in D : handleSetCustomDomain(r, s, d)
  \/ \E r \in R, s \in S : handleRemoveCustomDomain(r, s)
  \/ \E r \in R :
       \/ setDomainGetSite(r)
       \/ domainNginx(r)
       \/ domainCaddy(r)
       \/ domainURLs(r)
       \/ domainCommit(r)

\* One handler thread with the domain endpoints and every hostname input.
NextDomain ==
  \/ Api({1}, Sites, {JobProvision})
  \/ processNext(1, {"none"}, {"none"})
  \/ DomainApi({1}, Sites, DomainInputs)

SpecDomain == Init /\ [][NextDomain]_vars

\* Two handler threads attaching the same hostname to two sites.
NextDomainRace ==
  \/ Api({1}, Sites, {JobProvision})
  \/ processNext(1, {"none"}, {"none"})
  \/ DomainApi(Reqs, Sites, {<<"shop", "com">>})

SpecDomainRace == Init /\ [][NextDomainRace]_vars

\* One site: a handler thread serving domain requests while another serves
\* provision and destroy requests and the worker runs their jobs.
NextDomainDestroy ==
  \/ Api({2}, {"a"}, {JobProvision})
  \/ processNext(1, {"none"}, {"none"})
  \/ DomainApi({1}, {"a"}, {<<"shop", "com">>})

SpecDomainDestroy == Init /\ [][NextDomainDestroy]_vars

\* Site a after its provision job has run once, without failure, and was
\* completed: the state in which domain requests for it are accepted.
InitActive ==
  /\ now = 0
  /\ jobs = CompleteJobRow(ClaimUpdate(InsertJob(<<>>, 1, JobProvision, "a", 0), 1, 0), 1)
  /\ sites = UpdateSiteStatus(UpsertSite(<<>>, "a", "PROVISIONING", 1), "a",
                              FinalSiteStatus(JobProvision))
  /\ nextJob = 1
  /\ req = [r \in Reqs |-> IdleReq]
  /\ wpc = [w \in Claimers |-> "idle"]
  /\ wjob = [w \in Claimers |-> NoJob]
  /\ wres = [w \in Claimers |-> NoRes]
  /\ recovered = 0
  /\ infra = [s \in Sites |->
                IF s = "a" THEN ProvisionerRun(NoInfra, "none", "none").inf
                ELSE NoInfra]
  /\ quit = FALSE

\* Two handler threads serving domain requests for the same ACTIVE site.
NextDomainPair ==
  DomainApi(Reqs, {"a"}, {<<"shop", "com">>, <<"blog", "org">>})

SpecDomainPair == InitActive /\ [][NextDomainPair]_vars

\* ------------------------------------------------------------- hard delete
\* DELETE FROM jobs WHERE site=?
DeleteJobsOfSite(J, site) ==
  [k \in {j \in DOMAIN J : J[j].site # site} |-> J[k]]

\* DELETE FROM sites WHERE site=?
DeleteSiteRow(S, site) == [t \in DOMAIN S \ {site} |-> S[t]]

\* DELETE FROM jobs WHERE id=?
HardDeleteJob(J, id) == [k \in DOMAIN J \ {id} |-> J[k]]

\* rows an open claim transaction holds locked; a DELETE waits for them
ClaimLocked == {wjob[w].ID : w \in {u \in Claimers : wpc[u] = "selected"}}

\* handleDeleteSite: existing.Status != "DESTROYED" is refused
DeletableStatus(status) == status = "DESTROYED"

\* handleDeleteSite: GetSite; 404, or 409 unless the site is DESTROYED
handleDeleteSite(r, site) ==
  /\ Listening
  /\ req[r].pc = "idle"
  /\ req' = [req EXCEPT ![r] =
       IF site \notin DOMAIN sites THEN Respond(r, 404)
       ELSE IF ~DeletableStatus(sites[site].status) THEN Respond(r, 409)
       ELSE [IdleReq EXCEPT !.kind = "DELETE_SITE", !.site = site,
                            !.pc = "delJobs"]]
  /\ UNCHANGED <<now, jobs, sites, nextJob, wpc, wjob, wres, recovered, infra, quit>>

\* HardDeleteSite, first statement: the jobs of the site
deleteSiteJobs(r) ==
  /\ req[r].pc = "delJobs"
  /\ \A j \in ClaimLocked : j \in DOMAIN jobs => jobs[j].site # req[r].site
  /\ jobs' = DeleteJobsOfSite(jobs, req[r].site)
  /\ req' = [req EXCEPT ![r].pc = "delSite"]
  /\ UNCHANGED <<now, sites, nextJob, wpc, wjob, wres, recovered, infra, quit>>

\* HardDeleteSite, second statement: the site row; then 200
deleteSiteRow(r) ==
  /\ req[r].pc = "delSite"
  /\ sites' = DeleteSiteRow(sites, req[r].site)
  /\ req' = [req EXCEPT ![r] = Respond(r, 200)]
  /\ UNCHANGED <<now, jobs, nextJob, wpc, wjob, wres, recovered, infra, quit>>

\* handleDeleteJob: GetJob; 404, or 409 for a PENDING or PROCESSING job
handleDeleteJob(r, id) ==
  /\ Listening
  /\ req[r].pc = "idle"
  /\ req' = [req EXCEPT ![r] =
       IF id \notin DOMAIN jobs THEN Respond(r, 404)
       ELSE IF jobs[id].status \in {StatusProcessing, StatusPending}
         THEN Respond(r, 409)
       ELSE [IdleReq EXCEPT !.kind = "DELETE_JOB", !.jobID = id,
                            !.pc = "delJob"]]
  /\ UNCHANGED <<now, jobs, sites, nextJob, wpc, wjob, wres, recovered, infra, quit>>

\* HardDeleteJob; then 200
deleteJobRow(r) ==
  /\ req[r].pc = "delJob"
  /\ req[r].jobID \notin ClaimLocked
  /\ jobs' = HardDeleteJob(jobs, req[r].jobID)
  /\ req' = [req EXCEPT ![r] = Respond(r, 200)]
  /\ UNCHANGED <<now, sites, nextJob, wpc, wjob, wres, recovered, infra, quit>>

\* the delete endpoints, served by the handler threads R
DeleteApi(R, S, IDs) ==
  \/ \E r \in R, s \in S : handleDeleteSite(r, s)
  \/ \E r \in R, id \in IDs : handleDeleteJob(r, id)
  \/ \E r \in R :
       \/ deleteSiteJobs(r)
       \/ deleteSiteRow(r)
       \/ deleteJobRow(r)

\* Two handler threads with the enqueue and delete endpoints of one site.
NextDelete ==
  \/ Api(Reqs, {"a"}, {JobProvision})
  \/ processNext(1, {"none"}, {"none"})
  \/ DeleteApi(Reqs, {"a"}, 1..MaxJobIDs)

SpecDelete == Init /\ [][NextDelete]_vars

\* ------------------------------------------------------- submitted names
\* site names as clients submit them: empty, one character of each class,
\* and a lower-case letter followed by punctuation
NameInputs == {<<>>, <<"a", "-">>} \cup {<<ch>> : ch \in NameChars}

\* the enqueue endpoints under every submitted name, with one worker
NextNames ==
  \/ ApiNames({1}, NameInputs, {JobProvision, JobStaticProvision})
  \/ handlerSetPayload(1)
  \/ processNext(1, {"none"}, {"none"})

SpecNames == Init /\ [][NextNames]_vars

\* ------------------------------------------------------ lifecycle checks
\* a caller holds an ordered pair of statuses and is about to evaluate
\* from.CanTransitionTo(to)
InitMatrix ==
  /\ now = 0
  /\ jobs = <<>>
  /\ sites = <<>>
  /\ nextJob = 0
  /\ \E f \in SiteStatuses, t \in SiteStatuses :
       req = [r \in Reqs |->
                IF r = 1
                  THEN [IdleReq EXCEPT !.kind = "CanTransitionTo",
                                       !.pc = "canTransition",
                                       !.from = f, !.to = t]
                  ELSE IdleReq]
  /\ wpc = [w \in Claimers |-> "idle"]
  /\ wjob = [w \in Claimers |-> NoJob]
  /\ wres = [w \in Claimers |-> NoRes]
  /\ recovered = 0
  /\ infra = [s \in Sites |-> NoInfra]
  /\ quit = FALSE

\* from.CanTransitionTo(to) returns
canTransitionTo(r) ==
  /\ req[r].pc = "canTransition"
  /\ req' = [req EXCEPT ![r].pc = "idle",
                        ![r].result =
                          IF CanTransitionTo(req[r].from, req[r].to)
                            THEN "true" ELSE "false"]
  /\ UNCHANGED <<now, jobs, sites, nextJob, wpc, wjob, wres, recovered, infra, quit>>

NextMatrix == \E r \in Reqs : canTransitionTo(r)

SpecMatrix == InitMatrix /\ [][NextMatrix]_vars

\* ------------------------------------------------------- TransitionSite
\* two TransitionSite calls for site "a" have begun while the site's status
\* was the same; from keeps that status, to the requested target
InitTransition ==
  /\ now = 0
  /\ jobs = <<>>
  /\ nextJob = 0
  /\ \E cur \in SiteStatuses :
       /\ sites = [t \in {"a"} |->
                     [status |-> cur, job_id |-> 0, custom_domain |-> NoDomain]]
       /\ \E t1 \in SiteStatuses, t2 \in SiteStatuses :
            req = [r \in Reqs |->
                     [IdleReq EXCEPT !.kind = "TransitionSite", !.site = "a",
                                     !.pc = "transition", !.from = cur,
                                     !.to = IF r = 1 THEN t1 ELSE t2]]
  /\ wpc = [w \in Claimers |-> "idle"]
  /\ wjob = [w \in Claimers |-> NoJob]
  /\ wres = [w \in Claimers |-> NoRes]
  /\ recovered = 0
  /\ infra = [s \in Sites |-> NoInfra]
  /\ quit = FALSE

\* a check made on the status the caller saw before its transaction began
StatusSeenBefore(S, site, seen) == seen

\* the status TransitionSite checks: the one it loads inside its transaction
StatusLoaded(S, site, seen) == S[site].status

\* TransitionSite(site, target): one transaction that loads the current
\* status, checks current.CanTransitionTo(target), and either writes the
\* target or returns InvalidTransition
TransitionSite(r) ==
  /\ req[r].pc = "transition"
  /\ LET site == req[r].site
         current == StatusLoaded(sites, site, req[r].from)
     IN IF CanTransitionTo(current, req[r].to)
          THEN /\ sites' = UpdateSiteStatus(sites, site, req[r].to)
               /\ req' = [req EXCEPT ![r].pc = "idle", ![r].result = "nil"]
          ELSE /\ sites' = sites
               /\ req' = [req EXCEPT ![r].pc = "idle",
                                     ![r].result = "InvalidTransition"]
  /\ UNCHANGED <<now, jobs, nextJob, wpc, wjob, wres, recovered, infra, quit>>

NextTransition == \E r \in Reqs : TransitionSite(r)

SpecTransition == InitTransition /\ [][NextTransition]_vars

\* ------------------------------------------------------ static provisioner
\* what earlier runs of StaticProvisioner.Run can have left for a site
StaticLeftovers ==
  {st \in [vol : BOOLEAN, files : BOOLEAN, tmp : BOOLEAN,
           nginx : {"missing", "created", "running"}, conf : BOOLEAN,
           live : BOOLEAN, zip : {FALSE}] :
     /\ st.files => st.vol
     /\ st.live => st.conf
     /\ (st.conf \/ st.nginx # "missing") => st.files}

InitStatic ==
  /\ now = 0
  /\ jobs = <<>>
  /\ sites = <<>>
  /\ nextJob = 0
  /\ req = [r \in Reqs |-> IdleReq]
  /\ wpc = [w \in Claimers |-> "idle"]
  /\ wjob = [w \in Claimers |-> NoJob]
  /\ wres = [w \in Claimers |-> NoRes]
  /\ recovered = 0
  /\ quit = FALSE
  /\ \E st \in StaticLeftovers :
       infra = [s \in Sites |->
                  IF s = "a" THEN [NoInfra EXCEPT !.static = st] ELSE NoInfra]

\* StaticProvisioner.Run(job.Site, zipPath) for a claimed STATIC_PROVISION job
staticRun(w) ==
  /\ wpc[w] = "claimed"
  /\ wjob[w].Type = JobStaticProvision
  /\ \E fp \in StaticFailPoints, rf \in UploadRemoveFails :
       LET r == StaticProvisionerRun(infra[wjob[w].Site].static, fp, rf)
       IN /\ infra' = [infra EXCEPT ![wjob[w].Site].static = r.inf]
          /\ wres' = [wres EXCEPT ![w] = [err |-> r.err, compFailed |-> FALSE,
                                          comps |-> <<>>, msg |-> r.msg]]
  /\ wpc' = [wpc EXCEPT ![w] = "executed"]
  /\ UNCHANGED <<now, jobs, sites, nextJob, req, wjob, recovered, quit>>

\* StaticProvisioner.Run driven for the static jobs the API enqueues
NextStatic ==
  \/ \E k \in {JobStaticProvision} : handleProvision(1, <<"a">>, k)
  \/ provisionGetSite(1)
  \/ handlerInsertJob(1)
  \/ handlerUpsertSite(1)
  \/ handlerSetPayload(1)
  \/ ClaimSelect(1)
  \/ ClaimCommit(1)
  \/ staticRun(1)
  \/ FinishJobRow(1)
  \/ FinishSiteRow(1)

SpecStatic == InitStatic /\ [][NextStatic]_vars

\* DB.FailJob applied to a job whose execution failed: its jobs-row
\* statement; the UpdateSiteStatus that ends it is FinishSiteRow
FailJob(w) ==
  /\ wpc[w] = "executed"
  /\ wres[w].err
  /\ jobs' = FailJobRow(jobs, wjob[w].ID)
  /\ wpc' = [wpc EXCEPT ![w] = "siteUpdate"]
  /\ UNCHANGED <<now, sites, nextJob, req, wjob, wres, recovered, infra, quit>>

\* The store's FailJob driven directly, for jobs of both types.
NextFail ==
  \/ Api({1}, Sites, {JobProvision})
  \/ processNext(1, QueueFails, {"none"})
  \/ FailJob(1)

SpecFail == Init /\ [][NextFail]_vars

\* -------------------------------------------------------------- properties
ActiveJobs(s) ==
  {j \in DOMAIN jobs :
     jobs[j].site = s /\ jobs[j].status \in {StatusPending, StatusProcessing}}

\* C1: at every instant every site has at most one job in PENDING or
\* PROCESSING, under every interleaving of the enqueue requests (HasActiveJob,
\* then InsertJob) with the worker.
C1_AtMostOneActiveJob ==
  \A s \in Sites : Cardinality(ActiveJobs(s)) <= 1

\* C2: a job whose execution returned an error is put back to PENDING by the
\* worker only while its attempts counter (incremented by the claim) is below
\* max_attempts; at attempts >= max_attempts it is marked FAILED.
C2_ExhaustedJobIsFailed ==
  \A j \in DOMAIN jobs :
    (jobs[j].status = StatusPending /\ jobs[j].error = "attempt failed")
      => jobs[j].attempts < jobs[j].max_attempts

\* C3: every site status is one of the eleven lifecycle values and every
\* change of a stored status goes along an edge of the transition matrix.
C3_StatusFollowsMatrix ==
  /\ [](\A s \in DOMAIN sites : sites[s].status \in SiteStatuses)
  /\ [][\A s \in DOMAIN sites :
          (s \in DOMAIN sites' /\ sites'[s].status # sites[s].status)
            => CanTransitionTo(sites[s].status, sites'[s].status)]_vars

AllExist(inf) ==
  inf.db /\ inf.vol /\ inf.php # "missing" /\ inf.nginx # "missing" /\ inf.snippet

NoneExist(inf) ==
  ~inf.db /\ ~inf.vol /\ inf.php = "missing" /\ inf.nginx = "missing" /\ ~inf.snippet

\* C4: after every run of Provisioner.Run, successful or rolled back, in which
\* no compensation call failed, either all of DB, volume, app container,
\* sidecar and snippet of the site exist or none of them does.
C4_ProvisionAllOrNone ==
  \A w \in Workers :
    (wpc[w] = "executed" /\ wjob[w].Type = JobProvision /\ ~wres[w].compFailed)
      => (AllExist(infra[wjob[w].Site]) \/ NoneExist(infra[wjob[w].Site]))

\* C5: when a completed provision job of a site has been followed by a
\* completed destroy job that left the site DESTROYED, none of the site's DB,
\* DB user, volume, containers and snippet exists.
C5_ProvisionThenDestroyLeavesNothing ==
  \A s \in DOMAIN sites : \A p, d \in DOMAIN jobs :
    ( /\ p < d
      /\ jobs[p].site = s /\ jobs[p].type = JobProvision
      /\ jobs[p].status = StatusCompleted
      /\ jobs[d].site = s /\ jobs[d].type = JobDestroy
      /\ jobs[d].status = StatusCompleted
      /\ sites[s].job_id = d /\ sites[s].status = "DESTROYED" )
      => (NoneExist(infra[s]) /\ infra[s].user = {})

Holding(w) == wpc[w] \in {"selected", "claimed", "executed", "siteUpdate"}

\* C6: ClaimNextJob never hands the same job to two callers: the row a caller
\* has selected is PENDING (never PROCESSING), and no two callers hold the
\* same job at once.
C6_NoDoubleClaim ==
  \A w \in Claimers :
    /\ wpc[w] = "selected" => jobs[wjob[w].ID].status = StatusPending
    /\ \A v \in Claimers \ {w} :
         (Holding(w) /\ Holding(v)) => wjob[w].ID # wjob[v].ID

C6_BothClaiming ==
  /\ wpc[1] = "selected" /\ wpc[2] = "selected"
  /\ wjob[1].ID # wjob[2].ID

Claimable(j) ==
  jobs[j].status = StatusPending /\ jobs[j].attempts < jobs[j].max_attempts

\* C7: ClaimNextJob returns a job of earliest creation time among the PENDING
\* jobs with attempts < max_attempts; on return that row is PROCESSING with
\* attempts one higher and started_at set, and no other job row has changed.
C7_ClaimsOldestPending ==
  /\ [](\A w \in Workers :
          wpc[w] = "selected" =>
            /\ wjob[w].ID \in DOMAIN jobs
            /\ Claimable(wjob[w].ID)
            /\ \A k \in DOMAIN jobs :
                 Claimable(k) => jobs[wjob[w].ID].created_at <= jobs[k].created_at)
  /\ [](\A w \in Workers :
          wpc[w] = "claimed" =>
            /\ jobs[wjob[w].ID].status = StatusProcessing
            /\ jobs[wjob[w].ID].attempts = wjob[w].Attempts + 1
            /\ jobs[wjob[w].ID].started_at # NULL)
  /\ [][\A w \in Workers :
          (wpc[w] = "selected" /\ wpc'[w] = "claimed") =>
            /\ DOMAIN jobs' = DOMAIN jobs
            /\ \A k \in DOMAIN jobs \ {wjob[w].ID} : jobs'[k] = jobs[k]
            /\ jobs'[wjob[w].ID] =
                 [jobs[wjob[w].ID] EXCEPT !.status = StatusProcessing,
                                          !.attempts = @ + 1,
                                          !.started_at = now]
            /\ sites' = sites]_vars

C7_OlderJobSelected ==
  /\ wpc[1] = "selected"
  /\ \E k \in DOMAIN jobs :
       Claimable(k) /\ jobs[k].created_at > jobs[wjob[1].ID].created_at

\* C8: a job that startup recovery has moved back to PENDING (error marker
\* set) is claimed and executed again by the worker, so it has
\* attempts < max_attempts, which ClaimNextJob requires.
C8_RecoveredJobIsReclaimed ==
  \A j \in DOMAIN jobs :
    (jobs[j].status = StatusPending /\ jobs[j].error = "recovered")
      => jobs[j].attempts < jobs[j].max_attempts

\* C9: RecoverStuckJobs resets to PENDING exactly the PROCESSING jobs whose
\* started_at is older than the timeout, leaves every other row unchanged and
\* returns their number; afterwards no job is stuck, so a second call made
\* at once returns 0 and changes nothing.
C9_RecoverExactlyStuck ==
  [][(wpc[1] = "down" /\ wpc'[1] # "down") =>
       LET stuck == {j \in DOMAIN jobs :
                       /\ jobs[j].status = StatusProcessing
                       /\ jobs[j].started_at < now - StuckJobTimeout}
       IN /\ DOMAIN jobs' = DOMAIN jobs
          /\ \A j \in stuck :
               jobs'[j] = [jobs[j] EXCEPT !.status = StatusPending,
                                          !.error = "recovered"]
          /\ \A j \in DOMAIN jobs \ stuck : jobs'[j] = jobs[j]
          /\ recovered' = Cardinality(stuck)
          /\ \A j \in DOMAIN jobs' :
               ~(jobs'[j].status = StatusProcessing
                 /\ jobs'[j].started_at < now' - StuckJobTimeout)]_vars

C9_RecoveredOneLeftOne ==
  /\ wpc[1] = "idle"
  /\ recovered = 1
  /\ \E j, k \in DOMAIN jobs :
       /\ jobs[j].status = StatusPending /\ jobs[j].error = "recovered"
       /\ jobs[k].status = StatusProcessing

JobMoves ==
  {<<StatusPending, StatusProcessing>>, <<StatusProcessing, StatusCompleted>>,
   <<StatusProcessing, StatusFailed>>, <<StatusProcessing, StatusPending>>}

\* C10: a job's status only moves PENDING -> PROCESSING ->
\* {COMPLETED, FAILED, PENDING}; COMPLETED and FAILED are never left, and the
\* attempts counter never decreases.
C10_JobStatusMoves ==
  [][\A j \in DOMAIN jobs :
       j \in DOMAIN jobs' =>
         /\ jobs'[j].attempts >= jobs[j].attempts
         /\ \/ jobs'[j].status = jobs[j].status
            \/ <<jobs[j].status, jobs'[j].status>> \in JobMoves]_vars

C10_RetriedAndCompleted ==
  \E j, k \in DOMAIN jobs :
    /\ jobs[j].status = StatusPending /\ jobs[j].attempts >= 1
    /\ jobs[k].status = StatusCompleted /\ jobs[k].attempts >= 2

\* C11: once CompleteJob is over, a site whose most recent job (the one its
\* row points to) is a completed provision job is ACTIVE, and one whose most
\* recent job is a completed destroy job is DESTROYED.
C11_CompletedJobFixesSiteStatus ==
  \A s \in DOMAIN sites :
    LET j == sites[s].job_id
    IN (/\ j \in DOMAIN jobs
        /\ jobs[j].status = StatusCompleted
        /\ \A w \in Claimers : ~(wpc[w] = "siteUpdate" /\ wjob[w].ID = j))
         => sites[s].status = FinalSiteStatus(jobs[j].type)

\* C12: a FailJob call leaves the job FAILED and the site's status exactly as
\* it was before the call (PROVISIONING after a failed provision job,
\* DESTROYING after a failed destroy job).
C12_FailJobKeepsSiteStatus ==
  \A s \in DOMAIN sites :
    LET j == sites[s].job_id
    IN (/\ j \in DOMAIN jobs
        /\ jobs[j].status = StatusFailed
        /\ \A k \in DOMAIN jobs : jobs[k].site = s => k <= j
        /\ \A w \in Claimers : ~(wpc[w] = "siteUpdate" /\ wjob[w].ID = j))
         => sites[s].status = EnqueueStatus(jobs[j].type)

\* C13: DESTROYED is terminal: once a site's status is DESTROYED no step
\* changes that status (a later provision or destroy request included).
C13_DestroyedIsTerminal ==
  [][\A s \in DOMAIN sites :
       (sites[s].status = "DESTROYED" /\ s \in DOMAIN sites')
         => sites'[s].status = "DESTROYED"]_vars

InfraAt(inf, d, isWP) ==
  /\ isWP => inf.nginxDomain = d
  /\ inf.snippet /\ inf.snippetDomain = d
  /\ inf.edgeOn /\ inf.edgeDomain = d

\* C15: in SetCustomDomain and RemoveCustomDomain the store's custom_domain
\* is written only after the request's sidecar rewrite, edge snippet rewrite
\* and edge-router reload have succeeded.
C15_StoreWrittenAfterInfra ==
  [][\A s \in DOMAIN sites :
       (s \in DOMAIN sites' /\ sites'[s].custom_domain # sites[s].custom_domain)
         => InfraAt(infra[s], sites'[s].custom_domain,
                    isWordPressSite(sites, jobs, s))]_vars

\* a step of handler thread r that answers a SetCustomDomain request for a
\* hostname its site already holds
RepeatedSet(r) ==
  /\ req[r].pc = "domGetSite" /\ req'[r] # req[r]
  /\ req[r].site \in DOMAIN sites
  /\ sites[req[r].site].custom_domain = req[r].domain

\* the request ends with 200 and nothing else moved
AnsweredUntouched(r) ==
  /\ req'[r].pc = "idle" /\ req'[r].code = 200
  /\ infra' = infra /\ sites' = sites /\ jobs' = jobs

\* a hostname some site holds passes the entry gates of a repeated request
HeldDomainPassesGates ==
  \A s \in DOMAIN sites :
    LET d == sites[s].custom_domain
    IN d # NoDomain =>
         /\ ValidateCustomDomain(d, BaseDomain)
         /\ ValidateDomainPointsToIngress(d, PublicIP)
         /\ EnsureDomainAvailable(sites, d, s)

C17_RetryAfterCommitFailureConverges ==
  [][\A r \in Reqs :
       LET s == req[r].site
           d == req[r].domain
           commits == /\ req[r].pc = "domCommit" /\ req[r].kind = "SET_DOMAIN"
                      /\ req'[r].pc = "idle"
       IN /\ (commits /\ req'[r].code # 200)
               => /\ infra' = infra
                  /\ infra[s].snippetDomain = d
                  /\ req[r].isWP => infra[s].nginxDomain = d
                  /\ req'[r].code = 500
          /\ (commits /\ req[r].retry /\ req'[r].code = 200)
               => /\ sites'[s].custom_domain = d
                  /\ InfraAt(infra'[s], d, req[r].isWP)]_vars

\* a step that ends a request of thread r with a rejection
Rejected(r) ==
  /\ req'[r] # req[r]
  /\ req'[r].pc = "idle" /\ req'[r].code \in {400, 404, 409}
  /\ req[r].kind \notin {JobProvision, JobStaticProvision, JobDestroy}

\* C18: a SetCustomDomain request rejected for its format, for being the base
\* domain or under it, for having no A record equal to PUBLIC_IP, for a
\* hostname another site holds, for a missing site or for a site that is
\* neither ACTIVE nor DOMAIN_ACTIVE performs no sidecar rewrite, snippet write,
\* reload or store write: the rejection happens before the infra steps, and
\* a request gets to them only when none of the reasons applies.
C18_RejectedSetHasNoEffect ==
  [][\A r \in Reqs :
       LET s == req'[r].site
           d == req'[r].domain
       IN /\ Rejected(r)
               => /\ req[r].pc \in {"idle", "domGetSite"}
                  /\ infra' = infra /\ sites' = sites
          /\ (req[r].pc = "idle" /\ req'[r].kind = "SET_DOMAIN")
               => /\ d # <<>> /\ d[1] # "*" /\ Len(d) >= 2
                  /\ \A i \in 1..Len(d) : d[i] \in HostLabels
                  /\ d # BaseDomain
                  /\ ~(Len(d) > 2 /\ SubSeq(d, Len(d) - 1, Len(d)) = BaseDomain)
                  /\ PublicIP \in LookupHost(d)
                  /\ \A t \in DOMAIN sites :
                       (t # s /\ sites[t].status # "DESTROYED")
                         => sites[t].custom_domain # d
          /\ (req[r].pc = "domGetSite" /\ req'[r].pc = "domNginx")
               => /\ s \in DOMAIN sites
                  /\ sites[s].status \in {"ACTIVE", "DOMAIN_ACTIVE"}]_vars

\* site b asked for the hostname site a holds and was refused with a conflict
C18_HeldDomainRejected ==
  /\ req[1].pc = "idle" /\ req[1].code = 409
  /\ "a" \in DOMAIN sites /\ "b" \in DOMAIN sites
  /\ sites["a"].status = "ACTIVE" /\ sites["b"].status = "ACTIVE"
  /\ sites["a"].custom_domain = <<"shop", "com">>
  /\ sites["b"].custom_domain = NoDomain
  /\ infra["b"].snippetDomain = NoDomain /\ infra["b"].nginxDomain = NoDomain

\* the infrastructure of a site after one successful Provisioner.Run that
\* started from nothing (Run does not touch the site's static resources)
FreshlyProvisioned ==
  [db |-> TRUE, user |-> {"%"}, vol |-> TRUE, php |-> "running",
   nginx |-> "running", nginxDomain |-> NoDomain, snippet |-> TRUE,
   snippetDomain |-> NoDomain, edgeOn |-> TRUE, edgeDomain |-> NoDomain,
   siteurl |-> NoDomain, static |-> NoStatic]

\* C19: Provisioner.Run executed again for a site some or all of whose
\* resources an earlier attempt left behind succeeds when no adapter call
\* fails, and ends in the infra state of a single successful run from
\* nothing; every successful run of a provision job ends in that state.
C19_RerunProvisionConverges ==
  /\ [](\A s \in Sites :
          LET r == ProvisionerRun(infra[s], "none", "none")
          IN ~r.err /\ [r.inf EXCEPT !.static = NoStatic] = FreshlyProvisioned)
  /\ [][\A w \in Workers :
          (/\ wpc[w] = "claimed" /\ wpc'[w] = "executed"
           /\ wjob[w].Type = JobProvision /\ ~wres'[w].err)
            => [infra'[wjob[w].Site] EXCEPT !.static = NoStatic]
                 = FreshlyProvisioned]_vars

\* a provision job claimed again after a failed attempt whose rollback left
\* the DB behind and nothing else: the state Run is re-executed on
C19_RerunOnLeftovers ==
  \E w \in Workers :
    /\ wpc[w] = "claimed" /\ wjob[w].Type = JobProvision
    /\ wjob[w].Attempts >= 1
    /\ infra[wjob[w].Site].db /\ ~infra[wjob[w].Site].vol
    /\ infra[wjob[w].Site].php = "missing"

\* a run of a destroy job by worker w
DestroyRuns(w) ==
  wpc[w] = "claimed" /\ wpc'[w] = "executed" /\ wjob[w].Type = JobDestroy

\* nothing the run found absent exists after it
NothingRecreated(old, new) ==
  /\ new.db => old.db
  /\ new.user \subseteq old.user
  /\ new.vol => old.vol
  /\ new.php # "missing" => old.php # "missing"
  /\ new.nginx # "missing" => old.nginx # "missing"
  /\ new.snippet => old.snippet

\* C20: Destroyer.Run tolerates absent resources at every step and never
\* compensates; run again after a failure, with no adapter call failing, it
\* succeeds and removes everything that remained; run for a site without
\* resources it succeeds.
C20_RerunDestroyRemovesAll ==
  /\ [](\A s \in Sites : ~DestroyerRun(infra[s], "none").err)
  /\ [][\A w \in Workers :
          DestroyRuns(w)
            => LET s == wjob[w].Site
               IN /\ NothingRecreated(infra[s], infra'[s])
                  /\ (wjob[w].Attempts >= 1 /\ ~wres'[w].err)
                       => (NoneExist(infra'[s]) /\ infra'[s].user = {})]_vars

\* worker w ends a failed attempt of a provision job with RetryJob
RetriesProvision(w) ==
  /\ wpc[w] = "executed" /\ wpc'[w] = "idle" /\ jobs' # jobs
  /\ wjob[w].Type = JobProvision /\ wres[w].err

\* worker w ends CompleteJob for a provision job that had failed before
CompletesRetriedProvision(w) ==
  /\ wpc[w] = "siteUpdate" /\ wpc'[w] = "idle" /\ sites' # sites
  /\ wjob[w].Type = JobProvision /\ ~wres[w].err
  /\ wjob[w].Attempts >= 1

ProvisionKinds == {JobProvision, JobStaticProvision}

\* a step that ends a request of thread r with a conflict
Conflict(r) ==
  req'[r] # req[r] /\ req'[r].pc = "idle" /\ req'[r].code = 409

\* the InsertJob step of thread r's request put exactly one new row, PENDING
\* with attempts 0, into the jobs table
InsertsOneJob(r, kind) ==
  LET id == req'[r].jobID
  IN /\ id \notin DOMAIN jobs
     /\ DOMAIN jobs' = DOMAIN jobs \cup {id}
     /\ \A k \in DOMAIN jobs : jobs'[k] = jobs[k]
     /\ jobs'[id].type = kind /\ jobs'[id].site = req[r].site
     /\ jobs'[id].status = StatusPending /\ jobs'[id].attempts = 0
     /\ sites' = sites

\* C22: a provision or static-provision request for a site with a PENDING or
\* PROCESSING job, or with status ACTIVE, is rejected with a conflict, inserts
\* no job and changes no site row; an accepted request inserts exactly one
\* PENDING job with attempts 0 and leaves the site row PROVISIONING with
\* job_id equal to the new job's id.
C22_ProvisionRequestContract ==
  [][\A r \in Reqs :
       LET q == req[r]
           n == req'[r]
       IN /\ Conflict(r) => (jobs' = jobs /\ sites' = sites)
          /\ (q.pc = "idle" /\ n.pc = "getSite")
               => \A j \in DOMAIN jobs :
                    jobs[j].site = n.site
                      => jobs[j].status \notin {StatusPending, StatusProcessing}
          /\ (q.pc = "getSite" /\ n.pc = "insertJob")
               => ~(q.site \in DOMAIN sites /\ sites[q.site].status = "ACTIVE")
          /\ (q.pc = "insertJob" /\ n.pc = "upsertSite" /\ q.kind \in ProvisionKinds)
               => InsertsOneJob(r, q.kind)
          /\ (q.pc = "upsertSite" /\ n # q /\ n.code # 500 /\ q.kind \in ProvisionKinds)
               => /\ sites'[q.site].status = "PROVISIONING"
                  /\ sites'[q.site].job_id = q.jobID
                  /\ jobs' = jobs
          /\ (q.pc = "setPayload" /\ n # q)
               => /\ sites' = sites /\ DOMAIN jobs' = DOMAIN jobs
                  /\ \A k \in DOMAIN jobs :
                       /\ jobs'[k].status = jobs[k].status
                       /\ jobs'[k].attempts = jobs[k].attempts]_vars

\* a static-provision request was accepted: one PENDING job with attempts 0,
\* the site row PROVISIONING and pointing to it
C22_StaticProvisionAccepted ==
  /\ req[1].pc = "idle" /\ req[1].code = 202
  /\ "a" \in DOMAIN sites /\ sites["a"].status = "PROVISIONING"
  /\ sites["a"].job_id \in DOMAIN jobs
  /\ LET j == jobs[sites["a"].job_id]
     IN /\ j.type = JobStaticProvision /\ j.status = StatusPending
        /\ j.attempts = 0 /\ j.payload = "zip"
  /\ Cardinality(DOMAIN jobs) = 1

\* C23: a destroy request is accepted only if the site row exists, its
\* status is neither DESTROYING nor DESTROYED and the site has no PENDING or
\* PROCESSING job; an accepted request inserts exactly one PENDING DESTROY job
\* and the site status becomes DESTROYING; a rejected one inserts no job and
\* changes no site row.
C23_DestroyRequestContract ==
  [][\A r \in Reqs :
       LET q == req[r]
           n == req'[r]
       IN /\ (n # q /\ n.pc = "idle" /\ n.code \in {400, 404, 409})
               => (jobs' = jobs /\ sites' = sites)
          /\ (q.pc = "idle" /\ n.pc = "hasActive")
               => /\ n.site \in DOMAIN sites
                  /\ sites[n.site].status \notin {"DESTROYING", "DESTROYED"}
          /\ (q.pc = "hasActive" /\ n.pc = "insertJob")
               => \A j \in DOMAIN jobs :
                    jobs[j].site = q.site
                      => jobs[j].status \notin {StatusPending, StatusProcessing}
          /\ (q.pc = "insertJob" /\ n.pc = "upsertSite" /\ q.kind = JobDestroy)
               => InsertsOneJob(r, JobDestroy)
          /\ (q.pc = "upsertSite" /\ n # q /\ n.code # 500 /\ q.kind = JobDestroy)
               => /\ n.code = 202
                  /\ sites'[q.site].status = "DESTROYING"
                  /\ sites'[q.site].job_id = q.jobID
                  /\ jobs' = jobs]_vars

\* a destroy request for an ACTIVE site was accepted
C23_DestroyAccepted ==
  /\ req[1].pc = "idle" /\ req[1].code = 202
  /\ "a" \in DOMAIN sites /\ sites["a"].status = "DESTROYING"
  /\ sites["a"].job_id \in DOMAIN jobs
  /\ LET j == jobs[sites["a"].job_id]
     IN j.type = JobDestroy /\ j.status = StatusPending /\ j.attempts = 0
  /\ \E p \in DOMAIN jobs :
       jobs[p].type = JobProvision /\ jobs[p].status = StatusCompleted
  /\ AllExist(infra["a"])

\* C24: a site row is physically removed only while its status is DESTROYED,
\* and a job row is removed by job deletion only while the job is neither
\* PENDING nor PROCESSING; a delete request in any other state is rejected
\* with a conflict and removes nothing.
C24_HardDeleteOnlyWhenAllowed ==
  [][/\ \A s \in DOMAIN sites :
          s \notin DOMAIN sites' => sites[s].status = "DESTROYED"
     /\ \A r \in Reqs :
          /\ (req[r].pc = "delJob" /\ req'[r].pc = "idle" /\ req'[r].code = 200)
               => \A j \in DOMAIN jobs \ DOMAIN jobs' :
                    /\ j = req[r].jobID
                    /\ jobs[j].status \notin {StatusPending, StatusProcessing}
          /\ Conflict(r) => (DOMAIN jobs' = DOMAIN jobs /\ DOMAIN sites' = DOMAIN sites)]_vars

\* the name matches ^[a-z0-9]+$ character by character, as submitted
MatchesAsSubmitted(name) ==
  name # <<>> /\ \A i \in DOMAIN name : name[i] \in LowerChars

\* C25: the provision, static-provision and destroy endpoints accept only
\* names that match ^[a-z0-9]+$ as submitted (an empty name and a name with
\* an uppercase letter or punctuation are not accepted), and a request
\* answered 400 inserts no job and touches no site row.
C25_OnlyLowercaseNamesAccepted ==
  [][\A r \in Reqs :
       /\ (req[r].pc = "idle" /\ req'[r].pc \in {"getSite", "hasActive"})
            => MatchesAsSubmitted(req'[r].name)
       /\ (req'[r] # req[r] /\ req'[r].pc = "idle" /\ req'[r].code = 400)
            => (jobs' = jobs /\ sites' = sites)]_vars

\* C26: for every ordered pair (from, to) of the eleven site statuses,
\* CanTransitionTo(from, to) is true exactly when to is listed for from in
\* the transition matrix; DESTROYED has no allowed target, no status may
\* transition to itself, and no status may transition to CREATED.
C26_CanTransitionToIsTheMatrix ==
  \A r \in Reqs :
    (req[r].kind = "CanTransitionTo" /\ req[r].pc = "idle")
      => LET f == req[r].from
             t == req[r].to
             listed ==
               \/ f = "CREATED" /\ t \in {"PROVISIONING"}
               \/ f = "PROVISIONING" /\ t \in {"ACTIVE", "FAILED"}
               \/ f = "ACTIVE" /\ t \in {"DOMAIN_PENDING", "DESTROYING"}
               \/ f = "DOMAIN_PENDING" /\ t \in {"DOMAIN_VALIDATING", "ACTIVE"}
               \/ f = "DOMAIN_VALIDATING"
                    /\ t \in {"DOMAIN_ROUTING", "DOMAIN_PENDING", "ACTIVE"}
               \/ f = "DOMAIN_ROUTING" /\ t \in {"DOMAIN_ACTIVE", "ACTIVE"}
               \/ f = "DOMAIN_ACTIVE" /\ t \in {"DOMAIN_REMOVING", "DESTROYING"}
               \/ f = "DOMAIN_REMOVING" /\ t \in {"ACTIVE", "FAILED"}
               \/ f = "DESTROYING" /\ t \in {"DESTROYED", "FAILED"}
               \/ f = "FAILED" /\ t \in {"PROVISIONING", "DESTROYING"}
         IN /\ req[r].result \in {"true", "false"}
            /\ (req[r].result = "true") <=> listed
            /\ (f = "DESTROYED" \/ f = t \/ t = "CREATED")
                 => req[r].result = "false"

\* the check returned true for the step back from DOMAIN_VALIDATING to
\* DOMAIN_PENDING
C26_BackEdgeAllowed ==
  /\ req[1].kind = "CanTransitionTo" /\ req[1].pc = "idle"
  /\ req[1].from = "DOMAIN_VALIDATING" /\ req[1].to = "DOMAIN_PENDING"
  /\ req[1].result = "true"

\* C27: CompleteJob and FailJob commit completely or have no effect: a call
\* that ends before its job-row statement changes nothing, and a call whose
\* job-row statement has been applied (the job is COMPLETED or FAILED) does
\* not end, by a store error or a crash of the process either, without its
\* site-row update applied.
C27_FinishIsAllOrNothing ==
  [][\A w \in Workers :
       /\ (wpc[w] = "executed" /\ wpc'[w] \in {"idle", "down"} /\ jobs' = jobs)
            => sites' = sites
       /\ (wpc[w] = "siteUpdate" /\ wpc'[w] # "siteUpdate"
            /\ wjob[w].Site \in DOMAIN sites)
            => /\ wjob[w].Site \in DOMAIN sites'
               /\ sites'[wjob[w].Site].status =
                    (IF wres[w].err THEN FailSiteStatus
                                   ELSE FinalSiteStatus(wjob[w].Type))]_vars

\* the compensation calls due when the named step of Provisioner.Run fails,
\* in the order the rollback closure makes them
CompensationsAfter(step) ==
  CASE step = "createDatabase" -> <<>>
    [] step = "createVolume" -> <<"rb.db">>
    [] step = "createPhpContainer" -> <<"rb.vol", "rb.db">>
    [] step = "createNginxContainer" -> <<"rb.php", "rb.vol", "rb.db">>
    [] step \in {"writeNginxConfig", "writeCaddyConfig"}
         -> <<"rb.nginx", "rb.php", "rb.vol", "rb.db">>
    [] step = "reloadCaddy"
         -> <<"rb.snippet", "rb.reload", "rb.nginx", "rb.php", "rb.vol", "rb.db">>

\* the compensation calls of the list whose resource is still there
NotCompensated(comps, inf) ==
  {k \in DOMAIN comps :
     CASE comps[k] = "rb.snippet" -> inf.snippet
       [] comps[k] = "rb.reload" -> inf.edgeOn # inf.snippet
       [] comps[k] = "rb.nginx" -> inf.nginx # "missing"
       [] comps[k] = "rb.php" -> inf.php # "missing"
       [] comps[k] = "rb.vol" -> inf.vol
       [] comps[k] = "rb.db" -> inf.db \/ "%" \in inf.user}

\* C28: when a step of Provisioner.Run fails, the compensations of exactly
\* the tracked steps completed in this run are made, in reverse step order
\* (edge snippet and reload, sidecar, app container, volume, DB and user); a
\* failing compensation does not keep the others from taking effect; and the
\* returned error wraps the failed step with the tag
\* "provisioning failed (rolled back)".
C28_RollbackCompensatesInReverse ==
  [][\A w \in Workers :
       (wpc[w] = "claimed" /\ wpc'[w] = "executed"
        /\ wjob[w].Type = JobProvision /\ wres'[w].err)
         => LET res == wres'[w]
                post == infra'[wjob[w].Site]
            IN /\ Len(res.msg) = 2
               /\ res.msg[1] = "provisioning failed (rolled back)"
               /\ res.comps = CompensationsAfter(res.msg[2])
               /\ Cardinality(NotCompensated(res.comps, post)) <= 1
               /\ ~res.compFailed => NotCompensated(res.comps, post) = {}]_vars

\* the edge reload failed and, in the rollback, the removal of the volume
\* failed: the DB behind it in the order was dropped all the same
C28_CompensationErrorIgnored ==
  \E w \in Workers :
    /\ wpc[w] = "executed" /\ wjob[w].Type = JobProvision /\ wres[w].err
    /\ wres[w].msg = <<"provisioning failed (rolled back)", "reloadCaddy">>
    /\ wres[w].compFailed
    /\ infra[wjob[w].Site].vol /\ ~infra[wjob[w].Site].db
    /\ infra[wjob[w].Site].php = "missing" /\ ~infra[wjob[w].Site].snippet

\* C29: in SetCustomDomain, when step 2 (edge snippet rewrite) fails, the
\* sidecar server block is back at the hostnames it had before the request,
\* the store's custom_domain is unchanged and an error is returned; step 3
\* (the application URL update), failing or not, rewrites neither the
\* sidecar nor the snippet and hands over to the store commit.
C29_Step2FailureRestoresSidecar ==
  [][\A r \in Reqs :
       LET s == req[r].site
       IN /\ (req[r].kind = "SET_DOMAIN" /\ req[r].pc = "domCaddy"
               /\ req'[r].pc = "idle")
               => /\ req'[r].code = 500
                  /\ sites' = sites
                  /\ req[r].isWP => infra'[s].nginxDomain = req[r].sidecar
          /\ (req[r].kind = "SET_DOMAIN" /\ req[r].pc = "domURLs"
               /\ req'[r] # req[r])
               => /\ req'[r].pc = "domCommit"
                  /\ sites' = sites
                  /\ infra'[s].nginxDomain = infra[s].nginxDomain
                  /\ infra'[s].snippet = infra[s].snippet
                  /\ infra'[s].snippetDomain = infra[s].snippetDomain
                  /\ infra'[s].edgeDomain = infra[s].edgeDomain]_vars

\* both TransitionSite calls have returned
BothReturned ==
  \A r \in Reqs : req[r].kind = "TransitionSite" /\ req[r].pc = "idle"

Succeeded == {r \in Reqs : req[r].result = "nil"}

\* C30: two TransitionSite calls for the same site that run concurrently
\* from the same current status are serialized so that exactly one succeeds
\* and the other is rejected with InvalidTransition, whatever the two
\* requested targets allowed from that status are.
C30_ExactlyOneTransitionWins ==
  (BothReturned /\ \A r \in Reqs : CanTransitionTo(req[r].from, req[r].to))
    => /\ Cardinality(Succeeded) = 1
       /\ \A r \in Reqs \ Succeeded : req[r].result = "InvalidTransition"

\* C30 as the serialization gives it: each call returns nil or
\* InvalidTransition; of two calls whose targets are allowed from the status
\* they began at, one succeeds, and the other succeeds as well exactly when
\* its target is allowed from the first one's target, in which case the site
\* ends at the second target; two calls for the same target never both
\* succeed.
C30_SecondCheckedAgainstFirst ==
  (BothReturned /\ \A r \in Reqs : CanTransitionTo(req[r].from, req[r].to))
    => /\ \A r \in Reqs : req[r].result \in {"nil", "InvalidTransition"}
       /\ Succeeded # {}
       /\ req[1].to = req[2].to => Cardinality(Succeeded) = 1
       /\ Succeeded = Reqs
            => \E r1 \in Reqs, r2 \in Reqs :
                 /\ r1 # r2
                 /\ req[r2].to \in allowedTransitions[req[r1].to]
                 /\ sites["a"].status = req[r2].to
       /\ Cardinality(Succeeded) = 1
            => \E r1 \in Succeeded :
                 /\ sites["a"].status = req[r1].to
                 /\ \A r2 \in Reqs \ {r1} :
                      req[r2].to \notin allowedTransitions[req[r1].to]

\* both calls asked for DESTROYING on an ACTIVE site: one won, the other got
\* InvalidTransition
C30_SameTargetOneWinner ==
  /\ BothReturned
  /\ req[1].from = "ACTIVE" /\ req[1].to = "DESTROYING" /\ req[2].to = "DESTROYING"
  /\ req[1].result = "InvalidTransition" /\ req[2].result = "nil"
  /\ sites["a"].status = "DESTROYING"

\* C32: after StaticProvisioner.Run returns an error, whichever step failed,
\* nothing this run created remains: the upload container is deleted, the
\* uploaded files are removed and the site's configuration written for the
\* edge is removed.
C32_FailedStaticRunLeavesNothing ==
  [][\A w \in Workers :
       (wpc[w] = "claimed" /\ wpc'[w] = "executed"
        /\ wjob[w].Type = JobStaticProvision /\ wres'[w].err)
         => LET pre == infra[wjob[w].Site].static
                post == infra'[wjob[w].Site].static
            IN /\ post.tmp => pre.tmp
               /\ post.files => pre.files
               /\ post.conf => pre.conf]_vars

\* C31: the worker runs every claimed job with the runner of its type:
\* PROVISION with Provisioner.Run, DESTROY with Destroyer.Run and
\* STATIC_PROVISION with StaticProvisioner.Run, so that the job's outcome and
\* the site's resources are those of that runner (a static job whose static
\* provisioning succeeds goes on to COMPLETED and ACTIVE).
C31_JobsDispatchedByType ==
  [][\A w \in Workers :
       (wpc[w] = "claimed" /\ wpc'[w] = "executed")
         => LET pre == infra[wjob[w].Site]
                post == infra'[wjob[w].Site]
                res == wres'[w]
            IN /\ wjob[w].Type = JobProvision
                    => \E fp \in ProvFailPoints, cf \in CompFailPoints :
                         LET r == ProvisionerRun(pre, fp, cf)
                         IN r.inf = post /\ r.err = res.err /\ r.msg = res.msg
               /\ wjob[w].Type = JobDestroy
                    => \E fp \in DestFailPoints :
                         LET r == DestroyerRun(pre, fp)
                         IN r.inf = post /\ r.err = res.err /\ r.msg = res.msg
               /\ wjob[w].Type = JobStaticProvision
                    => \E fp \in StaticFailPoints, rf \in UploadRemoveFails :
                         LET r == StaticProvisionerRun(pre.static, fp, rf)
                         IN /\ r.inf = post.static
                            /\ r.err = res.err /\ r.msg = res.msg]_vars

\* C33: on graceful shutdown the worker's current tick completes and the next
\* tick is skipped: when the process exits after the signal the worker is
\* between ticks (the job it was executing has been completed, retried or
\* failed), and after the signal no processNext begins and no job is claimed.
C33_ShutdownLetsTickFinish ==
  [][/\ (quit /\ ProcessUp /\ wpc'[1] = "down") => wpc[1] = "idle"
     /\ quit => ~(wpc[1] = "idle" /\ wpc'[1] = "selected")]_vars

\* C34: the Job struct that ClaimNextJob returns carries the attempts value
\* the stored row has after the claim (the increment included), so the
\* worker decides between retry and fail on the stored attempt count.
C34_ClaimReturnsStoredAttempts ==
  \A w \in Workers :
    (wpc[w] \in {"claimed", "executed"} /\ wjob[w].ID \in DOMAIN jobs)
      => wjob[w].Attempts = jobs[wjob[w].ID].attempts

\* C35: every PENDING job is claimable, it has attempts < max_attempts,
\* whatever claims, retries and startup recoveries came before.
C35_PendingJobIsClaimable ==
  \A j \in DOMAIN jobs :
    jobs[j].status = StatusPending => jobs[j].attempts < jobs[j].max_attempts

\* C36: while the worker keeps ticking and every execution terminates, every
\* inserted job eventually is COMPLETED or FAILED (so HasActiveJob of its site
\* becomes false again and later requests for the site are not blocked).
C36_EveryJobFinishes ==
  \A j \in 1..MaxJobIDs :
    (j \in DOMAIN jobs)
      ~> (j \in DOMAIN jobs /\ jobs[j].status \in {StatusCompleted, StatusFailed})

\* C37: in every reachable state a WordPress site whose stored status is
\* ACTIVE has its application DB, volume, app container, sidecar container
\* and edge snippet in existence, however provision and destroy requests
\* interleave with the worker's executions, retries and rollbacks.
C37_ActiveSiteHasAllResources ==
  \A s \in DOMAIN sites :
    sites[s].status = "ACTIVE" => AllExist(infra[s])

\* the site's last job is a DESTROY job that is COMPLETED and no request for
\* the site is in flight
DestroyedAndQuiet(s) ==
  /\ s \in DOMAIN sites
  /\ sites[s].job_id \in DOMAIN jobs
  /\ jobs[sites[s].job_id].type = JobDestroy
  /\ jobs[sites[s].job_id].status = StatusCompleted
  /\ \A r \in Reqs : req[r].pc = "idle"

\* C38: when a SetCustomDomain or RemoveCustomDomain request runs concurrently
\* with a destroy request and destroy job for the same site, then once the
\* destroy job is COMPLETED and the domain request has returned the site has no
\* edge snippet (nor, with it, a sidecar configuration), and no request sets
\* the store's custom_domain after the site has left ACTIVE / DOMAIN_ACTIVE.
C38_DomainRequestLosesToDestroy ==
  /\ [](\A s \in Sites : DestroyedAndQuiet(s) => ~infra[s].snippet)
  /\ [][\A s \in DOMAIN sites :
          (s \in DOMAIN sites'
           /\ sites'[s].custom_domain # sites[s].custom_domain
           /\ sites'[s].custom_domain # NoDomain)
            => sites[s].status \in {"ACTIVE", "DOMAIN_ACTIVE"}]_vars

\* both handler threads have returned from a domain request that went through
\* all its steps and answered 200
BothDomainRequestsDone ==
  \A r \in Reqs : req[r].pc = "idle" /\ req[r].code = 200 /\ req[r].kind = "-"

\* C39: when two SetCustomDomain requests with different hostnames (or a
\* SetCustomDomain and a RemoveCustomDomain) for the same site run
\* concurrently and both have returned, the site's edge snippet and sidecar
\* server block name the default hostname plus exactly the custom_domain the
\* store holds (the default alone when it holds none).
C39_ConcurrentDomainRequestsAgree ==
  BothDomainRequestsDone
    => /\ infra["a"].snippetDomain = sites["a"].custom_domain
       /\ infra["a"].nginxDomain = sites["a"].custom_domain

\* C40: a site hard-delete never removes a PENDING or PROCESSING job and never
\* removes a site row that a concurrently accepted provision request has moved
\* out of DESTROYED: however the delete interleaves with a provision request
\* for the same site, what it removes is a DESTROYED row with no active job.
C40_HardDeleteSparesActiveWork ==
  [][\A r \in Reqs :
       /\ (req[r].pc = "delJobs" /\ req'[r].pc = "delSite")
            => \A j \in DOMAIN jobs \ DOMAIN jobs' :
                 jobs[j].status \notin {StatusPending, StatusProcessing}
       /\ (req[r].pc = "delSite" /\ req'[r].pc = "idle" /\ req'[r].code = 200
           /\ req[r].site \in DOMAIN sites)
            => /\ sites[req[r].site].status = "DESTROYED"
               /\ ~HasActiveJob(jobs, req[r].site)]_vars
====
